---- MODULE Spec2Model ----
(***************************************************************************)
(* Authentication and session-token core of EComBackend: token codec,      *)
(* refresh-token registry, access-token blacklist, credential middleware   *)
(* and the auth orchestrator flows, over a Redis-like cache store.         *)
(***************************************************************************)
EXTENDS Integers, Sequences, FiniteSets, TLC

(***************************************************************************)
(* Bounds of the model.                                                    *)
(***************************************************************************)
\* number of instants of the wall clock a behaviour may visit
MaxClock == 2
\* Math.random() * 1000 is cut down to 0..MaxRand
MaxRand == 0
\* number of refresh tokens handed out in one behaviour
MaxRefresh == 2
\* number of access tokens handed out in one behaviour
MaxAccess == 2
\* number of calls of a service function that may be in progress together
MaxCalls == 3

\* the instants the clock may show, in seconds: 0, 1 hour, 4 hours, 1 day,
\* 7 days, 14 days, 30 days.  Every instant is a whole second, so that
\* Date.now() is 1000 * nowSec and Math.floor(Date.now() / 1000) is nowSec; the
\* model keeps all times in seconds.
Instants == <<0, 3600, 14400, 86400, 604800, 1209600, 2592000>>

(***************************************************************************)
(* Program constants.                                                      *)
(***************************************************************************)
DEFAULT_ACCESS_TOKEN_TTL == 86400
DEFAULT_REFRESH_TOKEN_TTL == 604800
DEFAULT_ADMIN_TOKEN_TTL == 3600
DEFAULT_ADMIN_REFRESH_TOKEN_TTL == 14400
OTP_EXPIRY_SECONDS == 600
\* the defaults of checkRateLimit(identifier, maxAttempts = 3, windowSeconds = 600)
DefaultMaxAttempts == 3
DefaultWindowSeconds == 600
\* the limit of the password-reset requests: checkRateLimit(email, 2, 1800)
ResetMaxAttempts == 2
ResetWindowSeconds == 1800

\* JavaScript undefined / null and falsy environment values
Undefined == "undefined"
NoExpiry == -1

\* process.env: the standard secrets are always configured
ACCESS_TOKEN_SECRET == "access-secret"
REFRESH_TOKEN_SECRET == "refresh-secret"

\* the configurations of the optional environment variables ("" and 0: unset)
Envs ==
  {[ADMIN_ACCESS_TOKEN_SECRET |-> "", ADMIN_REFRESH_TOKEN_SECRET |-> "",
    REFRESH_TOKEN_EXPIRY |-> 0],
   [ADMIN_ACCESS_TOKEN_SECRET |-> "admin-access-secret",
    ADMIN_REFRESH_TOKEN_SECRET |-> "admin-refresh-secret",
    REFRESH_TOKEN_EXPIRY |-> 2592000]}

UserIds == {"u1", "a1", "u2"}
Emails == {"u1@x.com", "a1@x.com", "u2@x.com"}
Passwords == {"Secret123!", "wrong"}
OtpCodes == {"123456"}

VARIABLES
  env,            \* process.env, fixed at start-up
  clock,          \* index into Instants
  users,          \* the User collection (MongoDB)
  refreshStore,   \* Redis keys auth:refresh:<userId>:<jti | tokens>
  blacklist,      \* Redis keys auth:blacklist:<sha256>
  otpStore,       \* Redis keys otp:<userId>:<purpose>, otp-ratelimit:<contact>
  refreshIssued,  \* refresh tokens returned to a client
  accessIssued,   \* access tokens returned to a client
  revokedOk,      \* refresh tokens covered by a revocation that returned true
  blacklistedOk,  \* access tokens for which blacklistAccessToken wrote a record
  last,           \* the last request handled and its outcome
  calls,          \* the calls in progress: where each one stands, its locals
  order           \* one document of the Order collection (MongoDB)

vars == <<env, clock, users, refreshStore, blacklist, otpStore, refreshIssued,
          accessIssued, revokedOk, blacklistedOk, last, calls, order>>

nowSec == Instants[clock]

\* a || b on strings and on numbers
OrStr(a, b) == IF a = "" THEN b ELSE a
OrNum(a, b) == IF a = 0 THEN b ELSE a

(***************************************************************************)
(* jsonwebtoken                                                            *)
(***************************************************************************)
\* the jti of a token without one, and the literal "tokens"
NoJti == <<Undefined, 0, 0>>
TokensField == <<"tokens", 0, 0>>

\* a string that is not a JWT
Garbage ==
  [fmt |-> "garbage", user |-> [id |-> Undefined], role |-> Undefined,
   jti |-> NoJti, iat |-> 0, exp |-> 0, isAdmin |-> FALSE, sig |-> ""]

\* obj.field of a JavaScript object
Prop(obj, field) == IF field \in DOMAIN obj THEN obj[field] ELSE Undefined

\* JSON.stringify of an object and JSON.parse of the result: a property
\* whose value is undefined is left out.  Only the properties that hold
\* strings can be undefined.
StringProps == {"id", "_id", "role", "avatarUrl", "email", "phoneNumber"}
ToJSON(obj) ==
  [f \in {g \in DOMAIN obj : ~(g \in StringProps /\ obj[g] = Undefined)} |-> obj[f]]

jwt_sign(payload, secret, expiresIn) ==
  [fmt |-> "jwt", user |-> ToJSON(payload.user), role |-> payload.role,
   jti |-> payload.jti, iat |-> payload.iat, exp |-> payload.iat + expiresIn,
   isAdmin |-> payload.isAdmin, sig |-> secret]

\* jwt.decode: the payload without any check, null for a non-JWT
jwt_decode(token) ==
  IF token.fmt = "jwt" THEN [ok |-> TRUE, payload |-> token]
  ELSE [ok |-> FALSE, payload |-> Garbage]

\* jwt.verify: signature first, then expiry
jwt_verify(token, secret, sec) ==
  IF token.fmt # "jwt" \/ secret = "" \/ token.sig # secret
    THEN [ok |-> FALSE, name |-> "JsonWebTokenError", payload |-> Garbage]
  ELSE IF sec >= token.exp
    THEN [ok |-> FALSE, name |-> "TokenExpiredError", payload |-> Garbage]
  ELSE [ok |-> TRUE, name |-> "", payload |-> token]

\* crypto.createHash('sha256').update(token).digest('hex')
sha256(token) == <<"sha256", token>>

\* bcrypt
bcrypt_hash(password) == <<"bcrypt", password>>
bcrypt_compare(password, hash) == hash = bcrypt_hash(password)

(***************************************************************************)
(* redis.service.js over one key space S.  An entry is a string value or a *)
(* hash; an entry whose expiry has passed does not exist.                  *)
(***************************************************************************)
NullData ==
  [token |-> Garbage, userId |-> Undefined, isAdmin |-> FALSE,
   createdAt |-> 0, expiresAt |-> 0]

Live(e, sec) == e.exp = NoExpiry \/ e.exp > sec

\* the entries stored under one key (none or one)
AtKey(S, key) == {e \in S : e.key = key}

redis_exists(S, key) == AtKey(S, key) # {}

\* SET key value EX expiry: replaces whatever the key held
redis_set(S, key, value, expiry, sec) ==
  (S \ AtKey(S, key)) \cup
    {[key |-> key, kind |-> "string", val |-> value,
      hash |-> {}, exp |-> sec + expiry]}

\* GET key: null for a missing key, WRONGTYPE error for a hash
redis_get(S, key) ==
  IF AtKey(S, key) = {} THEN [err |-> FALSE, found |-> FALSE, val |-> NullData]
  ELSE LET e == CHOOSE x \in AtKey(S, key) : TRUE IN
       IF e.kind = "string" THEN [err |-> FALSE, found |-> TRUE, val |-> e.val]
       ELSE [err |-> TRUE, found |-> FALSE, val |-> NullData]

redis_del(S, key) == S \ AtKey(S, key)

\* HSET key field value: creates the hash without expiry, keeps an existing one
redis_hSet(S, key, hfield, value) ==
  IF AtKey(S, key) = {}
    THEN [err |-> FALSE,
          S |-> S \cup {[key |-> key, kind |-> "hash",
                         val |-> NullData, hash |-> {<<hfield, value>>},
                         exp |-> NoExpiry]}]
  ELSE LET e == CHOOSE x \in AtKey(S, key) : TRUE IN
       IF e.kind # "hash" THEN [err |-> TRUE, S |-> S]
       ELSE [err |-> FALSE,
             S |-> (S \ {e}) \cup
                   {[e EXCEPT !.hash = {p \in e.hash : p[1] # hfield}
                                        \cup {<<hfield, value>>}]}]

\* EXPIRE key seconds
redis_expire(S, key, seconds, sec) ==
  {IF e.key = key THEN [e EXCEPT !.exp = sec + seconds]
   ELSE e : e \in S}

\* HGETALL key: {} for a missing key
redis_hGetAll(S, key) ==
  IF AtKey(S, key) = {} THEN [err |-> FALSE, hash |-> {}]
  ELSE LET e == CHOOSE x \in AtKey(S, key) : TRUE IN
       IF e.kind # "hash" THEN [err |-> TRUE, hash |-> {}]
       ELSE [err |-> FALSE, hash |-> e.hash]

\* HDEL key field: a hash left empty is removed
redis_hDel(S, key, hfield) ==
  IF AtKey(S, key) = {} THEN [err |-> FALSE, S |-> S]
  ELSE LET e == CHOOSE x \in AtKey(S, key) : TRUE
           h == {p \in e.hash : p[1] # hfield} IN
       IF e.kind # "hash" THEN [err |-> TRUE, S |-> S]
       ELSE IF h = {} THEN [err |-> FALSE, S |-> S \ {e}]
       ELSE [err |-> FALSE, S |-> (S \ {e}) \cup {[e EXCEPT !.hash = h]}]

\* the decimal strings Redis keeps a counter as, and parseInt of one
DecimalStrings == <<"1", "2", "3", "4">>
parseInt(str) == CHOOSE n \in 1..Len(DecimalStrings) : DecimalStrings[n] = str

\* INCR key: a missing key counts from 0 and gets no expiry, an existing one
\* keeps its expiry
redis_incr(S, key) ==
  IF AtKey(S, key) = {}
    THEN [err |-> FALSE,
          S |-> S \cup {[key |-> key, kind |-> "string", val |-> DecimalStrings[1],
                         hash |-> {}, exp |-> NoExpiry]}]
  ELSE LET e == CHOOSE x \in AtKey(S, key) : TRUE IN
       IF e.kind # "string" THEN [err |-> TRUE, S |-> S]
       ELSE [err |-> FALSE,
             S |-> (S \ {e}) \cup
                   {[e EXCEPT !.val = DecimalStrings[parseInt(e.val) + 1]]}]

(***************************************************************************)
(* token.service.js.  The parameter fail of an operation is the number of  *)
(* the Redis call at which ensureConnection throws (0: no call throws).    *)
(***************************************************************************)
\* `${TOKEN_PREFIXES.REFRESH}${userId}:${jti}` and `...${userId}:tokens`
RefreshKey(userId, jti) == <<userId, jti>>
UserTokensKey(userId) == <<userId, TokensField>>
BlacklistKey(tokenHash) == tokenHash

\* generateAccessToken signing the tokens of both domains with the standard
\* secret
generateAccessToken_oneSecret(e, user, isAdmin, sec) ==
  LET role == user.role
      payload == [user |-> user, role |-> role, jti |-> NoJti,
                  iat |-> sec, isAdmin |-> isAdmin]
      expiresIn == IF isAdmin THEN DEFAULT_ADMIN_TOKEN_TTL
                   ELSE DEFAULT_ACCESS_TOKEN_TTL
  IN jwt_sign(payload, ACCESS_TOKEN_SECRET, expiresIn)

\* generateAccessToken embedding the id and the role only
generateAccessToken_idOnly(e, user, isAdmin, sec) ==
  LET role == user.role
      payload == [user |-> [id |-> OrStr(Prop(user, "id"), Prop(user, "_id")),
                            role |-> role],
                  role |-> role, jti |-> NoJti, iat |-> sec, isAdmin |-> isAdmin]
      secret == IF isAdmin
                  THEN OrStr(e.ADMIN_ACCESS_TOKEN_SECRET, ACCESS_TOKEN_SECRET)
                  ELSE ACCESS_TOKEN_SECRET
      expiresIn == IF isAdmin THEN DEFAULT_ADMIN_TOKEN_TTL
                   ELSE DEFAULT_ACCESS_TOKEN_TTL
  IN jwt_sign(payload, secret, expiresIn)

generateAccessToken(e, user, isAdmin, sec) ==
  LET role == user.role
      payload == [user |-> user, role |-> role, jti |-> NoJti,
                  iat |-> sec, isAdmin |-> isAdmin]
      secret == IF isAdmin
                  THEN OrStr(e.ADMIN_ACCESS_TOKEN_SECRET, ACCESS_TOKEN_SECRET)
                  ELSE ACCESS_TOKEN_SECRET
      expiresIn == IF isAdmin THEN DEFAULT_ADMIN_TOKEN_TTL
                   ELSE DEFAULT_ACCESS_TOKEN_TTL
  IN jwt_sign(payload, secret, expiresIn)

generateRefreshToken(e, user, isAdmin, sec, rand) ==
  LET role == user.role
      userId == IF Prop(user, "id") # Undefined THEN user.id ELSE Prop(user, "_id")
      jti == <<userId, sec, rand>>
      payload == [user |-> user, role |-> role, jti |-> jti,
                  iat |-> sec, isAdmin |-> isAdmin]
      secret == IF isAdmin
                  THEN OrStr(e.ADMIN_REFRESH_TOKEN_SECRET, REFRESH_TOKEN_SECRET)
                  ELSE REFRESH_TOKEN_SECRET
      expiresIn == IF isAdmin THEN DEFAULT_ADMIN_REFRESH_TOKEN_TTL
                   ELSE OrNum(e.REFRESH_TOKEN_EXPIRY, DEFAULT_REFRESH_TOKEN_TTL)
  IN jwt_sign(payload, secret, expiresIn)

\* returns the store and whether the call threw
saveRefreshToken(S, userId, refreshToken, isAdmin, sec, fail) ==
  LET decoded == jwt_decode(refreshToken)
      expiryTime == decoded.payload.exp
      ttl == expiryTime - sec
      tokenKey == RefreshKey(userId, decoded.payload.jti)
      tokenData == [token |-> refreshToken, userId |-> userId,
                    isAdmin |-> (isAdmin \/ decoded.payload.isAdmin),
                    createdAt |-> sec, expiresAt |-> expiryTime]
      userTokensKey == UserTokensKey(userId)
      S1 == redis_set(S, tokenKey, tokenData, ttl, sec)
      r2 == redis_hSet(S1, userTokensKey, decoded.payload.jti, sec)
      S3 == redis_expire(r2.S, userTokensKey, DEFAULT_REFRESH_TOKEN_TTL * 2, sec)
  IN IF ~decoded.ok \/ ttl <= 0 \/ fail = 1 THEN [S |-> S, threw |-> TRUE]
     ELSE IF fail = 2 \/ r2.err THEN [S |-> S1, threw |-> TRUE]
     ELSE IF fail = 3 THEN [S |-> r2.S, threw |-> TRUE]
     ELSE [S |-> S3, threw |-> FALSE]

\* the user id verifyRefreshToken reads from a decoded token
DecodedUserId(payload) ==
  IF Prop(payload.user, "id") # Undefined THEN payload.user.id
  ELSE Prop(payload.user, "_id")

\* verifyRefreshToken without the registry comparison: whatever the lookup
\* returns, the token goes on to the signature check
verifyRefreshToken_noRegistry(e, S, refreshToken, sec, fail) ==
  LET decoded == jwt_decode(refreshToken)
      userId == DecodedUserId(decoded.payload)
      secret == IF decoded.payload.isAdmin
                  THEN OrStr(e.ADMIN_REFRESH_TOKEN_SECRET, REFRESH_TOKEN_SECRET)
                  ELSE REFRESH_TOKEN_SECRET
      verified == jwt_verify(refreshToken, secret, sec)
      Throw(m) == [ok |-> FALSE, message |-> m, payload |-> Garbage]
  IN IF ~decoded.ok \/ decoded.payload.jti = NoJti
       THEN Throw("Invalid refresh token format: missing jti")
     ELSE IF userId = Undefined
       THEN Throw("Invalid refresh token format: missing user ID")
     ELSE IF fail = 1 THEN Throw("Redis")
     ELSE IF ~verified.ok
       THEN Throw(IF verified.name = "TokenExpiredError"
                    THEN "Refresh token has expired" ELSE "invalid signature")
     ELSE [ok |-> TRUE, message |-> "", payload |-> verified.payload]

\* returns the verified payload or the error thrown
verifyRefreshToken(e, S, refreshToken, sec, fail) ==
  LET decoded == jwt_decode(refreshToken)
      userId == DecodedUserId(decoded.payload)
      tokenKey == RefreshKey(userId, decoded.payload.jti)
      r == redis_get(S, tokenKey)
      secret == IF decoded.payload.isAdmin
                  THEN OrStr(e.ADMIN_REFRESH_TOKEN_SECRET, REFRESH_TOKEN_SECRET)
                  ELSE REFRESH_TOKEN_SECRET
      verified == jwt_verify(refreshToken, secret, sec)
      Throw(m) == [ok |-> FALSE, message |-> m, payload |-> Garbage]
  IN IF ~decoded.ok \/ decoded.payload.jti = NoJti
       THEN Throw("Invalid refresh token format: missing jti")
     ELSE IF userId = Undefined
       THEN Throw("Invalid refresh token format: missing user ID")
     ELSE IF fail = 1 \/ r.err THEN Throw("Redis")
     ELSE IF ~r.found \/ r.val.token # refreshToken
       THEN Throw("Refresh token not found or revoked")
     ELSE IF ~verified.ok
       THEN Throw(IF verified.name = "TokenExpiredError"
                    THEN "Refresh token has expired" ELSE "invalid signature")
     ELSE [ok |-> TRUE, message |-> "", payload |-> verified.payload]

\* returns the store and the boolean returned
revokeRefreshToken(S, refreshToken, fail) ==
  LET decoded == jwt_decode(refreshToken)
      userId == DecodedUserId(decoded.payload)
      tokenKey == RefreshKey(userId, decoded.payload.jti)
      userTokensKey == UserTokensKey(userId)
      S1 == redis_del(S, tokenKey)
      r2 == redis_hDel(S1, userTokensKey, decoded.payload.jti)
  IN IF ~decoded.ok \/ decoded.payload.jti = NoJti THEN [S |-> S, ret |-> FALSE]
     ELSE IF userId = Undefined THEN [S |-> S, ret |-> FALSE]
     ELSE IF fail = 1 THEN [S |-> S, ret |-> FALSE]
     ELSE IF fail = 2 \/ r2.err THEN [S |-> S1, ret |-> FALSE]
     ELSE [S |-> r2.S, ret |-> TRUE]

\* revokeAllUserRefreshTokens that deletes the listed records but leaves the
\* index in place
revokeAllUserRefreshTokens_keepIndex(S, userId, fail, done) ==
  LET userTokensKey == UserTokensKey(userId)
      tokenList == redis_hGetAll(S, userTokensKey)
      jtiList == {p[1] : p \in tokenList.hash}
      DelAll(J) == {x \in S : x.key \notin {RefreshKey(userId, jti) : jti \in J}}
  IN IF fail = 1 \/ tokenList.err THEN [S |-> S, ret |-> FALSE]
     ELSE IF fail = 2 THEN [S |-> DelAll(done \cap jtiList), ret |-> FALSE]
     ELSE [S |-> DelAll(jtiList), ret |-> TRUE]

\* returns the store and the boolean returned; when a Redis call throws, the
\* records of the jtis in done have been deleted before it (fail: 1 for
\* hGetAll, 2 for a del of the loop or the final del)
revokeAllUserRefreshTokens(S, userId, fail, done) ==
  LET userTokensKey == UserTokensKey(userId)
      tokenList == redis_hGetAll(S, userTokensKey)
      jtiList == {p[1] : p \in tokenList.hash}
      DelAll(J) == {x \in S : x.key \notin {RefreshKey(userId, jti) : jti \in J}}
  IN IF fail = 1 \/ tokenList.err THEN [S |-> S, ret |-> FALSE]
     ELSE IF fail = 2 THEN [S |-> DelAll(done \cap jtiList), ret |-> FALSE]
     ELSE [S |-> redis_del(DelAll(jtiList), userTokensKey), ret |-> TRUE]

\* blacklistAccessToken keeping its record for the lifetime of an admin token
\* instead of the remaining lifetime of the token
blacklistAccessToken_fixedTtl(e, B, accessToken, sec, fail) ==
  LET v1 == jwt_verify(accessToken, ACCESS_TOKEN_SECRET, sec)
      v2 == jwt_verify(accessToken,
                       OrStr(e.ADMIN_ACCESS_TOKEN_SECRET, ACCESS_TOKEN_SECRET), sec)
      tokenInfo == IF v1.ok THEN v1.payload ELSE v2.payload
      ttl == tokenInfo.exp - sec
      tokenHash == sha256(accessToken)
      record == [jti |-> IF tokenInfo.jti = NoJti THEN <<"none", 0, 0>>
                         ELSE tokenInfo.jti,
                 userId |-> Prop(tokenInfo, "id"), blacklistedAt |-> sec]
  IN IF ~v1.ok /\ ~v2.ok THEN [B |-> B, ret |-> FALSE, wrote |-> FALSE]
     ELSE IF ttl <= 0 THEN [B |-> B, ret |-> TRUE, wrote |-> FALSE]
     ELSE IF fail = 1 THEN [B |-> B, ret |-> FALSE, wrote |-> FALSE]
     ELSE [B |-> redis_set(B, BlacklistKey(tokenHash), record,
                           DEFAULT_ADMIN_TOKEN_TTL, sec),
           ret |-> TRUE, wrote |-> TRUE]

\* returns the blacklist store, the boolean returned and whether a record
\* was written
blacklistAccessToken(e, B, accessToken, sec, fail) ==
  LET v1 == jwt_verify(accessToken, ACCESS_TOKEN_SECRET, sec)
      v2 == jwt_verify(accessToken,
                       OrStr(e.ADMIN_ACCESS_TOKEN_SECRET, ACCESS_TOKEN_SECRET), sec)
      tokenInfo == IF v1.ok THEN v1.payload ELSE v2.payload
      ttl == tokenInfo.exp - sec
      tokenHash == sha256(accessToken)
      record == [jti |-> IF tokenInfo.jti = NoJti THEN <<"none", 0, 0>>
                         ELSE tokenInfo.jti,
                 userId |-> Prop(tokenInfo, "id"), blacklistedAt |-> sec]
  IN IF ~v1.ok /\ ~v2.ok THEN [B |-> B, ret |-> FALSE, wrote |-> FALSE]
     ELSE IF ttl <= 0 THEN [B |-> B, ret |-> TRUE, wrote |-> FALSE]
     ELSE IF fail = 1 THEN [B |-> B, ret |-> FALSE, wrote |-> FALSE]
     ELSE [B |-> redis_set(B, BlacklistKey(tokenHash), record, ttl, sec),
           ret |-> TRUE, wrote |-> TRUE]

isTokenBlacklisted(B, accessToken, fail) ==
  IF fail = 1 THEN FALSE
  ELSE redis_exists(B, BlacklistKey(sha256(accessToken)))

(***************************************************************************)
(* user.middleware.js                                                      *)
(***************************************************************************)
\* the Authorization headers a client may send: none, "Bearer <token>",
\* the bare "<token>", "Basic <token>" and " "
NoHeader == [form |-> "none", token |-> Garbage]

defaultUser == [role |-> "anon", id |-> ""]

\* the token userMiddleware extracts from the header ("" when there is none)
ExtractToken(authHeader) ==
  CASE authHeader.form = "bearer" -> [some |-> TRUE, token |-> authHeader.token]
    [] authHeader.form = "bare" -> [some |-> TRUE, token |-> authHeader.token]
    [] authHeader.form = "basic" -> [some |-> TRUE, token |-> Garbage]
    [] OTHER -> [some |-> FALSE, token |-> Garbage]

\* userMiddleware without the blacklist lookup
userMiddleware_noBlacklist(e, B, authHeader, sec, fail) ==
  LET x == ExtractToken(authHeader)
      token == x.token
      user == jwt_verify(token, ACCESS_TOKEN_SECRET, sec)
      Reject(st, m) == [next |-> FALSE, status |-> st, message |-> m,
                        user |-> defaultUser, token |-> Garbage]
  IN IF authHeader.form = "none"
       THEN Reject(401, "No authorization header provided")
     ELSE IF ~x.some THEN Reject(401, "No token provided")
     ELSE IF user.ok
       THEN [next |-> TRUE, status |-> 0, message |-> "",
             user |-> user.payload, token |-> token]
     ELSE IF user.name = "TokenExpiredError" THEN Reject(401, "Token expired")
     ELSE Reject(403, "Invalid token")

\* userMiddleware answering every verification error alike
userMiddleware_oneError(e, B, authHeader, sec, fail) ==
  LET x == ExtractToken(authHeader)
      token == x.token
      isBlacklisted == isTokenBlacklisted(B, token, fail)
      user == jwt_verify(token, ACCESS_TOKEN_SECRET, sec)
      Reject(st, m) == [next |-> FALSE, status |-> st, message |-> m,
                        user |-> defaultUser, token |-> Garbage]
  IN IF authHeader.form = "none"
       THEN Reject(401, "No authorization header provided")
     ELSE IF ~x.some THEN Reject(401, "No token provided")
     ELSE IF isBlacklisted THEN Reject(401, "Token has been revoked")
     ELSE IF user.ok
       THEN [next |-> TRUE, status |-> 0, message |-> "",
             user |-> user.payload, token |-> token]
     ELSE Reject(403, "Invalid token")

\* the terminal outcome of userMiddleware for one request
userMiddleware(e, B, authHeader, sec, fail) ==
  LET x == ExtractToken(authHeader)
      token == x.token
      isBlacklisted == isTokenBlacklisted(B, token, fail)
      user == jwt_verify(token, ACCESS_TOKEN_SECRET, sec)
      Reject(st, m) == [next |-> FALSE, status |-> st, message |-> m,
                        user |-> defaultUser, token |-> Garbage]
  IN IF authHeader.form = "none"
       THEN Reject(401, "No authorization header provided")
     ELSE IF ~x.some THEN Reject(401, "No token provided")
     ELSE IF isBlacklisted THEN Reject(401, "Token has been revoked")
     ELSE IF user.ok
       THEN [next |-> TRUE, status |-> 0, message |-> "",
             user |-> user.payload, token |-> token]
     ELSE IF user.name = "TokenExpiredError" THEN Reject(401, "Token expired")
     ELSE Reject(403, "Invalid token")

\* adminMiddleware without the role check
adminMiddleware_noRole(e, B, authHeader, sec, fail) ==
  LET um == userMiddleware(e, B, authHeader, sec, fail)
      adminUser == jwt_verify(um.token, e.ADMIN_ACCESS_TOKEN_SECRET, sec)
  IN IF ~um.next THEN um
     ELSE IF e.ADMIN_ACCESS_TOKEN_SECRET # ""
       THEN IF adminUser.ok
              THEN [um EXCEPT !.user = adminUser.payload]
            ELSE [next |-> FALSE, status |-> 403,
                  message |-> "Invalid admin token",
                  user |-> um.user, token |-> um.token]
     ELSE um

\* the terminal outcome of adminMiddleware for one request
adminMiddleware(e, B, authHeader, sec, fail) ==
  LET um == userMiddleware(e, B, authHeader, sec, fail)
      adminUser == jwt_verify(um.token, e.ADMIN_ACCESS_TOKEN_SECRET, sec)
  IN IF ~um.next THEN um
     ELSE IF Prop(um.user, "role") = "admin"
       THEN IF e.ADMIN_ACCESS_TOKEN_SECRET # ""
              THEN IF adminUser.ok
                     THEN [um EXCEPT !.user = adminUser.payload]
                   ELSE [next |-> FALSE, status |-> 403,
                         message |-> "Invalid admin token",
                         user |-> um.user, token |-> um.token]
            ELSE um
     ELSE [next |-> FALSE, status |-> 403,
           message |-> "Admin privileges required",
           user |-> um.user, token |-> um.token]

(***************************************************************************)
(* The User collection and user.service.js                                 *)
(***************************************************************************)
NoUser ==
  [exists |-> FALSE, isRegistered |-> FALSE, role |-> "anon", email |-> "",
   phoneNumber |-> "", password |-> <<"bcrypt", "">>, avatarUrl |-> Undefined]

\* User.findOne(query): the id of one of the documents matching the query
FindOne(matching) ==
  IF matching # {} THEN [found |-> TRUE, id |-> CHOOSE id \in matching : TRUE]
  ELSE [found |-> FALSE, id |-> Undefined]

\* the registered documents with an email, with a phone number
ByEmail(U, email) ==
  {id \in UserIds : U[id].exists /\ U[id].isRegistered /\ U[id].email = email}
ByPhone(U, phoneNumber) ==
  {id \in UserIds : U[id].exists /\ U[id].isRegistered
                     /\ U[id].phoneNumber = phoneNumber}
Admins(U) == {id \in UserIds : U[id].exists /\ U[id].role = "admin"}

findUserByEmailOrPhone(U, email, phoneNumber) ==
  IF email # "" THEN FindOne(ByEmail(U, email))
  ELSE FindOne(ByPhone(U, phoneNumber))

\* findAdminByEmailOrPhone without the role in its query
findAdminByEmailOrPhone_anyRole(U, email, phoneNumber) ==
  IF email # "" THEN FindOne(ByEmail(U, email))
  ELSE FindOne(ByPhone(U, phoneNumber))

findAdminByEmailOrPhone(U, email, phoneNumber) ==
  IF email # "" THEN FindOne(ByEmail(U, email) \cap Admins(U))
  ELSE FindOne(ByPhone(U, phoneNumber) \cap Admins(U))

\* the identity object the password flows embed in a token
TokenUser(U, id) ==
  [id |-> id, role |-> U[id].role, avatarUrl |-> U[id].avatarUrl,
   email |-> U[id].email]

\* the Mongoose document, as it is serialised into a token
UserDocument(U, id) ==
  [_id |-> id, email |-> U[id].email, phoneNumber |-> U[id].phoneNumber,
   password |-> U[id].password, role |-> U[id].role,
   isRegistered |-> U[id].isRegistered, avatarUrl |-> U[id].avatarUrl]

\* mongoose.Types.ObjectId.isValid
ObjectIdValid(id) == id \in UserIds

\* user.service.js updateUser.  currentUser is req.user, the payload of the
\* access token; the name is required by the validation schema and is not
\* kept in this model; the e-mail addresses sent are lower-case and trimmed.
updateUser(U, id, currentUser, updateData) ==
  LET Thrown(m) == [U |-> U, threw |-> TRUE, message |-> m]
  IN IF ~ObjectIdValid(id) THEN Thrown("Invalid user ID format")
     ELSE IF Prop(currentUser, "role") # "admin" /\ Prop(currentUser, "id") # id
       THEN Thrown("Access denied. You can only update your own profile.")
     ELSE IF updateData.name = Undefined \/ updateData.phoneNumber = Undefined
       THEN Thrown("Validation error")
     ELSE IF ~U[id].exists THEN Thrown("Validation error")
     ELSE [U |-> [U EXCEPT ![id].email = updateData.email,
                           ![id].phoneNumber = updateData.phoneNumber],
           threw |-> FALSE, message |-> ""]

(***************************************************************************)
(* otp.service.js over the keys otp:<userId>:<purpose> and                 *)
(* otp-ratelimit:<identifier>                                              *)
(***************************************************************************)
getOTPRedisKey(userId, purpose) == <<userId, purpose>>
getRateLimitKey(identifier) == <<"otp-ratelimit", identifier>>

\* returns the store and whether the call threw
saveOTP(O, userId, purpose, otp, sec, fail) ==
  IF fail = 1 THEN [O |-> O, threw |-> TRUE]
  ELSE [O |-> redis_set(O, getOTPRedisKey(userId, purpose), otp,
                        OTP_EXPIRY_SECONDS, sec),
        threw |-> FALSE]

\* verifyOTP that leaves a verified code in the store
verifyOTP_keepCode(O, userId, otp, purpose, fail) ==
  LET redisKey == getOTPRedisKey(userId, purpose)
      storedOTP == redis_get(O, redisKey)
  IN IF otp = "" THEN [O |-> O, ret |-> FALSE]
     ELSE IF fail = 1 THEN [O |-> O, ret |-> FALSE]
     ELSE IF ~storedOTP.found \/ storedOTP.val # otp THEN [O |-> O, ret |-> FALSE]
     ELSE IF fail = 2 THEN [O |-> O, ret |-> FALSE]
     ELSE [O |-> O, ret |-> TRUE]

\* returns the store and the boolean returned
verifyOTP(O, userId, otp, purpose, fail) ==
  LET redisKey == getOTPRedisKey(userId, purpose)
      storedOTP == redis_get(O, redisKey)
  IN IF otp = "" THEN [O |-> O, ret |-> FALSE]
     ELSE IF fail = 1 THEN [O |-> O, ret |-> FALSE]
     ELSE IF ~storedOTP.found \/ storedOTP.val # otp THEN [O |-> O, ret |-> FALSE]
     ELSE IF fail = 2 THEN [O |-> O, ret |-> FALSE]
     ELSE [O |-> redis_del(O, redisKey), ret |-> TRUE]

\* returns the store and the boolean returned (fail: 1 for get, 2 for incr,
\* 3 for expire; every error is caught and answered with true)
checkRateLimit(O, identifier, maxAttempts, windowSeconds, sec, fail) ==
  LET key == getRateLimitKey(identifier)
      got == redis_get(O, key)
      attempts == IF got.found THEN parseInt(got.val) ELSE 0
      r2 == redis_incr(O, key)
      S3 == redis_expire(r2.S, key, windowSeconds, sec)
  IN IF fail = 1 \/ got.err THEN [O |-> O, ret |-> TRUE]
     ELSE IF attempts >= maxAttempts THEN [O |-> O, ret |-> FALSE]
     ELSE IF fail = 2 \/ r2.err THEN [O |-> O, ret |-> TRUE]
     ELSE IF got.found THEN [O |-> r2.S, ret |-> TRUE]
     ELSE IF fail = 3 THEN [O |-> r2.S, ret |-> TRUE]
     ELSE [O |-> S3, ret |-> TRUE]

(***************************************************************************)
(* auth.service.js.  Every flow returns the HTTP status its controller     *)
(* answers with, the stores it leaves behind and the tokens it returns.    *)
(***************************************************************************)
Result(status, U, S, O, accessToken, refreshToken) ==
  [status |-> status, U |-> U, S |-> S, O |-> O,
   accessToken |-> accessToken, refreshToken |-> refreshToken]

registerUser(e, U, S, O, userData, newId, sec, rand, fail) ==
  LET existingUser == findUserByEmailOrPhone(U, userData.email, userData.phoneNumber)
      newUser == [exists |-> TRUE, isRegistered |-> TRUE, role |-> "customer",
                  email |-> userData.email, phoneNumber |-> userData.phoneNumber,
                  password |-> bcrypt_hash(userData.password),
                  avatarUrl |-> Undefined]
      U1 == [U EXCEPT ![newId] = newUser]
      accessToken == generateAccessToken(e, TokenUser(U1, newId), FALSE, sec)
      refreshToken == generateRefreshToken(e, TokenUser(U1, newId), FALSE, sec, rand)
      sv == saveRefreshToken(S, newId, refreshToken, FALSE, sec, fail)
  IN IF existingUser.found THEN Result(400, U, S, O, Garbage, Garbage)
     ELSE IF sv.threw THEN Result(500, U1, sv.S, O, Garbage, Garbage)
     ELSE Result(201, U1, sv.S, O, accessToken, refreshToken)

signIn(e, U, S, O, credentials, sec, rand, fail) ==
  LET user == findUserByEmailOrPhone(U, credentials.email, credentials.phoneNumber)
      isValidPassword == bcrypt_compare(credentials.password, U[user.id].password)
      accessToken == generateAccessToken(e, TokenUser(U, user.id), FALSE, sec)
      refreshToken == generateRefreshToken(e, TokenUser(U, user.id), FALSE, sec, rand)
      sv == saveRefreshToken(S, user.id, refreshToken, FALSE, sec, fail)
  IN IF ~user.found THEN Result(404, U, S, O, Garbage, Garbage)
     ELSE IF U[user.id].role = "admin" THEN Result(403, U, S, O, Garbage, Garbage)
     ELSE IF ~isValidPassword THEN Result(401, U, S, O, Garbage, Garbage)
     ELSE IF sv.threw THEN Result(500, U, sv.S, O, Garbage, Garbage)
     ELSE Result(200, U, sv.S, O, accessToken, refreshToken)

\* failOtp is the failing Redis call of verifyOTP, fail that of saveRefreshToken
signInWithOTP(e, U, S, O, credentials, sec, rand, failOtp, fail) ==
  LET user == FindOne(ByEmail(U, credentials.email))
      isValidOTP == verifyOTP(O, user.id, credentials.otp, "login", failOtp)
      accessToken == generateAccessToken(e, UserDocument(U, user.id), FALSE, sec)
      refreshToken == generateRefreshToken(e, UserDocument(U, user.id), FALSE, sec, rand)
      sv == saveRefreshToken(S, user.id, refreshToken, FALSE, sec, fail)
  IN IF ~user.found THEN Result(404, U, S, O, Garbage, Garbage)
     ELSE IF ~isValidOTP.ret THEN Result(401, U, S, isValidOTP.O, Garbage, Garbage)
     ELSE IF sv.threw THEN Result(500, U, sv.S, isValidOTP.O, Garbage, Garbage)
     ELSE Result(200, U, sv.S, isValidOTP.O, accessToken, refreshToken)

\* otp.service.js sendLoginOTP: a new code is stored for the user
sendLoginOTP(U, O, credentials, otp, sec, fail) ==
  LET user == FindOne(ByEmail(U, credentials.email))
      sv == saveOTP(O, user.id, "login", otp, sec, fail)
  IN IF ~user.found \/ sv.threw THEN [O |-> O, threw |-> TRUE]
     ELSE [O |-> sv.O, threw |-> FALSE]

\* otp.service.js sendPasswordResetOTP: every error, the unknown e-mail
\* included, is caught and thrown again under one message
otpService_sendPasswordResetOTP(U, O, email, otp, sec, fail) ==
  LET user == FindOne(ByEmail(U, email))
      sv == saveOTP(O, user.id, "reset_password", otp, sec, fail)
  IN IF ~user.found \/ sv.threw
       THEN [O |-> O, threw |-> TRUE,
             message |-> "Khong the gui ma OTP dat lai mat khau"]
     ELSE [O |-> sv.O, threw |-> FALSE, message |-> ""]

\* AuthControllers.sendPasswordResetOTP: the store and the response
sendPasswordResetOTP(U, O, email, otp, sec, failR, fail) ==
  LET withinLimit == checkRateLimit(O, email, ResetMaxAttempts,
                                    ResetWindowSeconds, sec, failR)
      r == otpService_sendPasswordResetOTP(U, withinLimit.O, email, otp, sec, fail)
      Response(O1, st, m) == [O |-> O1, status |-> st, message |-> m]
  IN IF email = "" THEN Response(O, 400, "Email la bat buoc")
     ELSE IF ~withinLimit.ret
       THEN Response(withinLimit.O, 429, "Qua nhieu yeu cau dat lai mat khau")
     ELSE IF ~r.threw
       THEN Response(r.O, 200, "Ma OTP dat lai mat khau da duoc gui")
     ELSE IF r.message = "Khong tim thay nguoi dung voi email nay"
       THEN Response(r.O, 200, "Neu email ton tai, ma OTP se duoc gui")
     ELSE Response(r.O, 500, "Co loi xay ra khi gui ma OTP")

\* handleRefreshToken reading the identity from the stored user instead of
\* the token
handleRefreshToken_storedUser(e, U, S, O, refreshToken, sec, fail) ==
  LET decoded == verifyRefreshToken(e, S, refreshToken, sec, fail)
      id == DecodedUserId(decoded.payload)
      accessToken == generateAccessToken(e, TokenUser(U, id),
                                         decoded.payload.isAdmin, sec)
  IN IF ~decoded.ok THEN Result(403, U, S, O, Garbage, Garbage)
     ELSE Result(200, U, S, O, accessToken, Garbage)

\* handleRefreshToken that goes on to sign when the verification threw
handleRefreshToken_noVerify(e, U, S, O, refreshToken, sec, fail) ==
  LET decoded == jwt_decode(refreshToken)
      userInfo == [id |-> DecodedUserId(decoded.payload),
                   role |-> Prop(decoded.payload.user, "role"),
                   avatarUrl |-> Prop(decoded.payload.user, "avatarUrl"),
                   email |-> Prop(decoded.payload.user, "email")]
      accessToken == generateAccessToken(e, userInfo, decoded.payload.isAdmin, sec)
  IN IF ~decoded.ok THEN Result(403, U, S, O, Garbage, Garbage)
     ELSE Result(200, U, S, O, accessToken, Garbage)

handleRefreshToken(e, U, S, O, refreshToken, sec, fail) ==
  LET decoded == verifyRefreshToken(e, S, refreshToken, sec, fail)
      userInfo == [id |-> DecodedUserId(decoded.payload),
                   role |-> Prop(decoded.payload.user, "role"),
                   avatarUrl |-> Prop(decoded.payload.user, "avatarUrl"),
                   email |-> Prop(decoded.payload.user, "email")]
      accessToken == generateAccessToken(e, userInfo, decoded.payload.isAdmin, sec)
  IN IF ~decoded.ok THEN Result(403, U, S, O, Garbage, Garbage)
     ELSE Result(200, U, S, O, accessToken, Garbage)

adminSignIn(e, U, S, O, credentials, sec, rand, fail) ==
  LET admin == findAdminByEmailOrPhone(U, credentials.email, "")
      isValidPassword == bcrypt_compare(credentials.password, U[admin.id].password)
      adminAccessToken == generateAccessToken(e, TokenUser(U, admin.id), TRUE, sec)
      adminRefreshToken == generateRefreshToken(e, TokenUser(U, admin.id), TRUE, sec, rand)
      sv == saveRefreshToken(S, admin.id, adminRefreshToken, TRUE, sec, fail)
  IN IF credentials.email = "" THEN Result(400, U, S, O, Garbage, Garbage)
     ELSE IF ~admin.found THEN Result(401, U, S, O, Garbage, Garbage)
     ELSE IF ~isValidPassword THEN Result(401, U, S, O, Garbage, Garbage)
     ELSE IF sv.threw THEN Result(500, U, sv.S, O, Garbage, Garbage)
     ELSE Result(200, U, sv.S, O, adminAccessToken, adminRefreshToken)

\* AuthControllers.handleLogout after the middleware let the request pass:
\* returns the stores, and what blacklistAccessToken and the revocation did.
\* failB is the failing Redis call of blacklistAccessToken, fail and done
\* those of the revocation.
handleLogout(e, S, B, reqUser, reqToken, cookie, sec, failB, fail, done) ==
  LET userId == Prop(reqUser, "id")
      accessToken == reqToken
      refreshToken == cookie
      bl == blacklistAccessToken(e, B, accessToken, sec, failB)
      one == revokeRefreshToken(S, refreshToken.token, fail)
      all == revokeAllUserRefreshTokens(S, userId, fail, done)
  IN IF refreshToken.some
       THEN [S |-> one.S, B |-> bl.B, wrote |-> bl.wrote,
             revoked |-> IF one.ret THEN "one" ELSE "none", userId |-> userId]
     ELSE IF userId # Undefined /\ userId # ""
       THEN [S |-> all.S, B |-> bl.B, wrote |-> bl.wrote,
             revoked |-> IF all.ret THEN "all" ELSE "none", userId |-> userId]
     ELSE [S |-> S, B |-> bl.B, wrote |-> bl.wrote, revoked |-> "none",
           userId |-> userId]

(***************************************************************************)
(* The state machine: one action per request or service call.  The sets    *)
(* an action takes say which inputs the clients of a specification send    *)
(* and at which Redis call a request may lose the connection.              *)
(***************************************************************************)
NoCookie == [some |-> FALSE, token |-> Garbage]
Cookie(t) == [some |-> TRUE, token |-> t]

\* what the last request was and how it ended: the account named in its
\* body, the status and message answered, whether it succeeded, the token
\* the middleware attached as req.token and whether a refresh cookie came
Last(op, who, status, message, ok, token, cookie) ==
  [op |-> op, who |-> who, status |-> status, message |-> message, ok |-> ok,
   token |-> token, cookie |-> cookie]

\* the refresh tokens stored in the registry
StoredTokens == {x.val.token : x \in {y \in refreshStore : y.kind = "string"}}

\* tokens an attacker signs with a key of their own: a copy of an issued
\* refresh token, a refresh token whose jti is the literal "tokens", and an
\* access token claiming the admin role
Forge(t) == [t EXCEPT !.sig = "attacker-secret"]
TokensJti(t) == [t EXCEPT !.sig = "attacker-secret", !.jti = TokensField]
ForgedRefresh == {Forge(t) : t \in refreshIssued} \cup {TokensJti(t) : t \in refreshIssued}
ForgedAccess ==
  [fmt |-> "jwt",
   user |-> [id |-> "u1", role |-> "admin", avatarUrl |-> Undefined,
             email |-> "u1@x.com"],
   role |-> "admin", jti |-> NoJti, iat |-> 0, exp |-> Instants[Len(Instants)],
   isAdmin |-> TRUE, sig |-> "attacker-secret"]

AccessTokens == accessIssued \cup {ForgedAccess}
BearerHeaders == [form : {"bearer"}, token : AccessTokens]
Headers ==
  {NoHeader, [form |-> "blank", token |-> Garbage]} \cup
  [form : {"bearer", "bare", "basic"}, token : AccessTokens]
Cookies == {NoCookie} \cup {Cookie(t) : t \in refreshIssued \cup ForgedRefresh}

\* a behaviour hands out at most MaxRefresh refresh tokens and MaxAccess
\* access tokens: a request that would hand out one more is not sent
Room(S, R, A) ==
  /\ Cardinality(R \cup {x.val.token : x \in {y \in S : y.kind = "string"}})
       <= MaxRefresh
  /\ Cardinality(A) <= MaxAccess

\* the calls that may be in progress together, and one that has not begun.
\* A call stands before its first await ("idle"), between two awaits, or has
\* returned ("done"); its record keeps the arguments and the local variables.
Procs == 1..MaxCalls
NoCall ==
  [op |-> "", pc |-> "idle", otp |-> "", storedOTP |-> Undefined,
   attempts |-> 0, refreshToken |-> Garbage, userTokens |-> {},
   status |-> "", ret |-> FALSE]

Init ==
  /\ env \in Envs
  /\ clock = 1
  /\ users = [id \in UserIds |->
       CASE id = "u1" -> [exists |-> TRUE, isRegistered |-> TRUE, role |-> "customer",
                          email |-> "u1@x.com", phoneNumber |-> "0901",
                          password |-> bcrypt_hash("Secret123!"),
                          avatarUrl |-> Undefined]
         [] id = "a1" -> [exists |-> TRUE, isRegistered |-> TRUE, role |-> "admin",
                          email |-> "a1@x.com", phoneNumber |-> "0902",
                          password |-> bcrypt_hash("Secret123!"),
                          avatarUrl |-> "a1.png"]
         [] OTHER -> NoUser]
  /\ refreshStore = {}
  /\ blacklist = {}
  /\ otpStore = {}
  /\ refreshIssued = {}
  /\ accessIssued = {}
  /\ revokedOk = {}
  /\ blacklistedOk = {}
  /\ last = Last("init", "", 0, "", FALSE, Garbage, FALSE)
  /\ calls = [p \in Procs |-> NoCall]
  /\ order = [user |-> "u1", status |-> "pending"]

\* the clock moves on; Redis drops the keys whose expiry has passed
Tick ==
  /\ \E c \in (clock + 1)..MaxClock :
       /\ clock' = c
       /\ refreshStore' = {x \in refreshStore : Live(x, Instants[c])}
       /\ blacklist' = {x \in blacklist : Live(x, Instants[c])}
       /\ otpStore' = {x \in otpStore : Live(x, Instants[c])}
  /\ last' = Last("tick", "", 0, "", FALSE, Garbage, FALSE)
  /\ UNCHANGED <<calls, order, env, users, refreshIssued, accessIssued, revokedOk, blacklistedOk>>

\* the effect of an issuing flow that ended with result r
Issue(op, email, r) ==
  /\ Room(r.S, refreshIssued \cup ({r.refreshToken} \ {Garbage}),
          accessIssued \cup ({r.accessToken} \ {Garbage}))
  /\ users' = r.U
  /\ refreshStore' = r.S
  /\ otpStore' = r.O
  /\ refreshIssued' = refreshIssued \cup ({r.refreshToken} \ {Garbage})
  /\ accessIssued' = accessIssued \cup ({r.accessToken} \ {Garbage})
  /\ last' = Last(op, email, r.status, "", r.status \in {200, 201}, Garbage, FALSE)
  /\ UNCHANGED <<calls, order, env, clock, blacklist, revokedOk, blacklistedOk>>

\* POST /auth/sign-up
RegisterUserWith(Es, Ps, Fs) ==
  \E email \in Es, phoneNumber \in Ps, rand \in 0..MaxRand, fail \in Fs :
     \E newId \in {id \in UserIds : ~users[id].exists} :
       Issue("registerUser", email,
             registerUser(env, users, refreshStore, otpStore,
                          [email |-> email, phoneNumber |-> phoneNumber,
                           password |-> "Secret123!"], newId, nowSec, rand, fail))

\* POST /auth/sign-in
SignInWith(Es, Ps, Fs) ==
  \E email \in Es, password \in Ps, rand \in 0..MaxRand, fail \in Fs :
       Issue("signIn", email,
             signIn(env, users, refreshStore, otpStore,
                    [email |-> email, phoneNumber |-> "", password |-> password],
                    nowSec, rand, fail))

\* POST /auth/send-otp, after the rate limit let the request pass
SendLoginOTPWith(Es, Fs) ==
  /\ \E email \in Es, otp \in OtpCodes, fail \in Fs :
       LET r == sendLoginOTP(users, otpStore, [email |-> email], otp, nowSec, fail) IN
       /\ otpStore' = r.O
       /\ last' = Last("sendLoginOTP", email, IF r.threw THEN 500 ELSE 200, "",
                       ~r.threw, Garbage, FALSE)
  /\ UNCHANGED <<calls, order, env, clock, users, refreshStore, blacklist, refreshIssued,
                 accessIssued, revokedOk, blacklistedOk>>

\* POST /auth/send-otp: the controller asks the rate limit, then sends a code
SendLoginOTPLimitedWith(Es, FRs, Fs) ==
  /\ \E email \in Es, otp \in OtpCodes, failR \in FRs, fail \in Fs :
       LET withinLimit == checkRateLimit(otpStore, email, DefaultMaxAttempts,
                                         DefaultWindowSeconds, nowSec, failR)
           r == sendLoginOTP(users, withinLimit.O, [email |-> email], otp,
                             nowSec, fail)
       IN IF ~withinLimit.ret
            THEN /\ otpStore' = withinLimit.O
                 /\ last' = Last("sendLoginOTP", email, 429, "", FALSE, Garbage, FALSE)
          ELSE /\ otpStore' = r.O
               /\ last' = Last("sendLoginOTP", email, IF r.threw THEN 500 ELSE 200,
                               "", ~r.threw, Garbage, FALSE)
  /\ UNCHANGED <<calls, order, env, clock, users, refreshStore, blacklist, refreshIssued,
                 accessIssued, revokedOk, blacklistedOk>>

\* POST /auth/send-password-reset-otp
SendPasswordResetOTPWith(Es, FRs, Fs) ==
  /\ \E email \in Es, otp \in OtpCodes, failR \in FRs, fail \in Fs :
       LET r == sendPasswordResetOTP(users, otpStore, email, otp, nowSec,
                                     failR, fail)
       IN /\ otpStore' = r.O
          /\ last' = Last("sendPasswordResetOTP", email, r.status, r.message,
                          r.status = 200, Garbage, FALSE)
  /\ UNCHANGED <<calls, order, env, clock, users, refreshStore, blacklist, refreshIssued,
                 accessIssued, revokedOk, blacklistedOk>>

\* POST /auth/sign-in-otp
SignInWithOTPWith(Es, FOs, Fs) ==
  \E email \in Es, otp \in OtpCodes \cup {"000000"}, rand \in 0..MaxRand,
        failOtp \in FOs, fail \in Fs :
       Issue("signInWithOTP", email,
             signInWithOTP(env, users, refreshStore, otpStore,
                           [email |-> email, otp |-> otp], nowSec, rand, failOtp, fail))

\* POST /auth/admin/sign-in
AdminSignInWith(Es, Ps, Fs) ==
  \E email \in Es, password \in Ps, rand \in 0..MaxRand, fail \in Fs :
       Issue("adminSignIn", email,
             adminSignIn(env, users, refreshStore, otpStore,
                         [email |-> email, password |-> password], nowSec, rand, fail))

\* POST /auth/refresh-token and POST /auth/admin/refresh-token
RefreshTokenWith(Fs) ==
  /\ \E cookie \in Cookies \ {NoCookie}, fail \in Fs :
       LET r == handleRefreshToken(env, users, refreshStore, otpStore,
                                   cookie.token, nowSec, fail) IN
       /\ Room(refreshStore, refreshIssued,
               accessIssued \cup ({r.accessToken} \ {Garbage}))
       /\ accessIssued' = accessIssued \cup ({r.accessToken} \ {Garbage})
       /\ last' = Last("handleRefreshToken", "", r.status, "", r.status = 200,
                       Garbage, TRUE)
  /\ UNCHANGED <<calls, order, env, clock, users, refreshStore, blacklist, otpStore,
                 refreshIssued, revokedOk, blacklistedOk>>

\* the jtis listed in the index of a user
IndexJtis(userId) ==
  {p[1] : p \in redis_hGetAll(refreshStore, UserTokensKey(userId)).hash}

\* the middleware in front of a route
Middleware(op, hdr, failM) ==
  IF op \in {"adminLogout", "adminRequest"}
    THEN adminMiddleware(env, blacklist, hdr, nowSec, failM)
  ELSE userMiddleware(env, blacklist, hdr, nowSec, failM)

\* POST /auth/sign-out behind userMiddleware and POST /auth/admin/sign-out
\* behind adminMiddleware
LogoutVia(op, Hs, Cs, FMs, FBs, Fs) ==
  /\ \E hdr \in Hs, cookie \in Cs, failM \in FMs, failB \in FBs, fail \in Fs :
       LET um == Middleware(op, hdr, failM) IN
       IF ~um.next
         THEN /\ last' = Last(op, "", um.status, um.message, FALSE, Garbage, cookie.some)
              /\ UNCHANGED <<refreshStore, blacklist, revokedOk, blacklistedOk>>
       ELSE \E done \in SUBSET IndexJtis(Prop(um.user, "id")) :
         LET r == handleLogout(env, refreshStore, blacklist, um.user, um.token,
                               cookie, nowSec, failB, fail, done) IN
         /\ refreshStore' = r.S
         /\ blacklist' = r.B
         /\ revokedOk' = revokedOk \cup
              CASE r.revoked = "one" -> {cookie.token} \cap refreshIssued
                [] r.revoked = "all" ->
                     {t \in refreshIssued : DecodedUserId(t) = r.userId}
                [] OTHER -> {}
         /\ blacklistedOk' = IF r.wrote THEN blacklistedOk \cup {um.token}
                              ELSE blacklistedOk
         /\ last' = Last(op, "", 200, "", TRUE, um.token, cookie.some)
  /\ UNCHANGED <<calls, order, env, clock, users, otpStore, refreshIssued, accessIssued>>

\* a request to a route behind userMiddleware or adminMiddleware
RequestVia(op, Hs, FMs) ==
  /\ \E hdr \in Hs, failM \in FMs :
       LET um == Middleware(op, hdr, failM) IN
       last' = Last(op, "", um.status, um.message, um.next,
                    IF um.next THEN um.token ELSE Garbage, FALSE)
  /\ UNCHANGED <<calls, order, env, clock, users, refreshStore, blacklist, otpStore,
                 refreshIssued, accessIssued, revokedOk, blacklistedOk>>

\* PUT /user/:id behind userMiddleware
UpdateData ==
  [name : {"N", Undefined}, email : {"u1@x.com", "new@x.com"},
   phoneNumber : {"0901"}]
UpdateUserWith(Hs, Ids, FMs) ==
  /\ \E hdr \in Hs, id \in Ids, updateData \in UpdateData, failM \in FMs :
       LET um == userMiddleware(env, blacklist, hdr, nowSec, failM)
           r == updateUser(users, id, um.user, updateData)
       IN IF ~um.next
            THEN /\ users' = users
                 /\ last' = Last("updateUser", id, um.status, um.message, FALSE,
                                 Garbage, FALSE)
          ELSE /\ users' = r.U
               /\ last' = Last("updateUser", id, IF r.threw THEN 500 ELSE 200,
                               r.message, ~r.threw, um.token, FALSE)
  /\ UNCHANGED <<calls, order, env, clock, refreshStore, blacklist, otpStore, refreshIssued,
                 accessIssued, revokedOk, blacklistedOk>>

\* tokenService.revokeRefreshToken(refreshToken), called on its own
RevokeWith(Fs) ==
  /\ \E cookie \in Cookies \ {NoCookie}, fail \in Fs :
       LET r == revokeRefreshToken(refreshStore, cookie.token, fail) IN
       /\ refreshStore' = r.S
       /\ revokedOk' = revokedOk \cup
            IF r.ret THEN {cookie.token} \cap refreshIssued ELSE {}
       /\ last' = Last("revokeRefreshToken", "", 0, "", r.ret, Garbage, TRUE)
  /\ UNCHANGED <<calls, order, env, clock, users, blacklist, otpStore, refreshIssued,
                 accessIssued, blacklistedOk>>

\* tokenService.revokeAllUserRefreshTokens(userId), called on its own
RevokeAllWith(Us, Fs) ==
  /\ \E userId \in Us, fail \in Fs :
     \E done \in SUBSET IndexJtis(userId) :
       LET r == revokeAllUserRefreshTokens(refreshStore, userId, fail, done) IN
       /\ refreshStore' = r.S
       /\ revokedOk' = revokedOk \cup
            IF r.ret THEN {t \in refreshIssued : DecodedUserId(t) = userId} ELSE {}
       /\ last' = Last("revokeAllUserRefreshTokens", userId, 0, "", r.ret,
                       Garbage, FALSE)
  /\ UNCHANGED <<calls, order, env, clock, users, blacklist, otpStore, refreshIssued,
                 accessIssued, blacklistedOk>>

(***************************************************************************)
(* Spec: the life of sessions in the registry.  Clients sign in with a     *)
(* password, refresh, sign out and revoke; every Redis call may fail.      *)
(***************************************************************************)
SignIn == SignInWith({"u1@x.com"}, {"Secret123!"}, 0..3)
AdminSignIn == AdminSignInWith({"a1@x.com"}, {"Secret123!"}, 0..3)
RefreshToken == RefreshTokenWith(0..1)
Revoke == RevokeWith(0..2)
RevokeAll == RevokeAllWith({"u1", "a1"}, 0..2)

Next ==
  \/ Tick
  \/ SignIn
  \/ AdminSignIn
  \/ RefreshToken
  \/ Revoke
  \/ RevokeAll

Spec == Init /\ [][Next]_vars

(***************************************************************************)
(* SpecGate: requests through the middlewares.  Clients sign in (the       *)
(* customer with a password, the admin with a password or a login code),   *)
(* call protected routes and sign out without a refresh cookie; the        *)
(* blacklist lookups and writes may fail.                                  *)
(***************************************************************************)
GateSignIn == SignInWith({"u1@x.com"}, {"Secret123!"}, {0})
GateAdminSignIn == AdminSignInWith({"a1@x.com"}, {"Secret123!"}, {0})
GateSendLoginOTP == SendLoginOTPWith({"a1@x.com"}, {0})
GateSignInWithOTP == SignInWithOTPWith({"a1@x.com"}, {0}, {0})
GateLogout ==
  LogoutVia("logout", [form : {"bearer"}, token : accessIssued],
            {NoCookie}, {0}, 0..1, {0})
UserRequest == RequestVia("userRequest", Headers, 0..1)
AdminRequest ==
  RequestVia("adminRequest", {NoHeader} \cup BearerHeaders, 0..1)

NextGate ==
  \/ Tick
  \/ GateSignIn
  \/ GateAdminSignIn
  \/ GateSendLoginOTP
  \/ GateSignInWithOTP
  \/ GateLogout
  \/ UserRequest
  \/ AdminRequest

SpecGate == Init /\ [][NextGate]_vars

(***************************************************************************)
(* SpecLogout: sign-in and sign-out.  A signed-in client signs out with    *)
(* or without its refresh cookie; every Redis call of the sign-out         *)
(* handler may fail.                                                       *)
(***************************************************************************)
LogoutSignIn == SignInWith({"u1@x.com"}, {"Secret123!"}, {0})
LogoutAdminSignIn == AdminSignInWith({"a1@x.com"}, {"Secret123!"}, {0})
OwnHeaders == [form : {"bearer"}, token : accessIssued]
OwnCookies == {NoCookie} \cup {Cookie(t) : t \in refreshIssued}
Logout == LogoutVia("logout", OwnHeaders, OwnCookies, {0}, 0..1, 0..2)
AdminLogout ==
  LogoutVia("adminLogout", OwnHeaders, OwnCookies, {0}, 0..1, 0..2)

NextLogout ==
  \/ Tick
  \/ LogoutSignIn
  \/ LogoutAdminSignIn
  \/ Logout
  \/ AdminLogout

SpecLogout == Init /\ [][NextLogout]_vars

(***************************************************************************)
(* SpecIssue: every flow that issues tokens, for every identity.           *)
(***************************************************************************)
IssueRegisterUser == RegisterUserWith({"u1@x.com", "u2@x.com"}, {"0901", "0903"}, {0})
IssueSignIn == SignInWith(Emails, Passwords, {0})
IssueSendLoginOTP == SendLoginOTPWith(Emails, 0..1)
IssueSignInWithOTP == SignInWithOTPWith(Emails, 0..1, {0})
IssueAdminSignIn == AdminSignInWith(Emails, Passwords, {0})
IssueRefreshToken == RefreshTokenWith({0})

NextIssue ==
  \/ Tick
  \/ IssueRegisterUser
  \/ IssueSignIn
  \/ IssueSendLoginOTP
  \/ IssueSignInWithOTP
  \/ IssueAdminSignIn
  \/ IssueRefreshToken

SpecIssue == Init /\ [][NextIssue]_vars

(***************************************************************************)
(* SpecOtp: login codes.  Clients ask for codes through the rate limit and *)
(* sign in with them; every Redis call of the rate limit, of saveOTP and   *)
(* of verifyOTP may fail.                                                  *)
(***************************************************************************)
OtpSendLoginOTP == SendLoginOTPLimitedWith({"u1@x.com", "u2@x.com"}, 0..3, 0..1)
OtpSignInWithOTP == SignInWithOTPWith({"u1@x.com"}, 0..2, {0})
OtpSendPasswordResetOTP ==
  SendPasswordResetOTPWith({"u1@x.com", "u2@x.com"}, {0}, 0..1)

NextOtp ==
  \/ Tick
  \/ OtpSendLoginOTP
  \/ OtpSignInWithOTP
  \/ OtpSendPasswordResetOTP

SpecOtp == Init /\ [][NextOtp]_vars

(***************************************************************************)
(* The refresh flow next to changes of the stored users: a customer and   *)
(* an admin sign in, a profile is updated, refresh tokens are presented.   *)
(***************************************************************************)
RefreshSignIn == SignInWith({"u1@x.com", "new@x.com"}, {"Secret123!"}, {0})
RefreshAdminSignIn == AdminSignInWith({"a1@x.com"}, {"Secret123!"}, {0})
RefreshUpdateUser == UpdateUserWith(Headers, {"u1", "a1", "bad"}, {0})
RefreshRefreshToken == RefreshTokenWith(0..1)

NextRefresh ==
  \/ Tick
  \/ RefreshSignIn
  \/ RefreshAdminSignIn
  \/ RefreshUpdateUser
  \/ RefreshRefreshToken

SpecRefresh == Init /\ [][NextRefresh]_vars

(***************************************************************************)
(* SpecVerify: calls of verifyOTP for the login code of u1 that run        *)
(* together.  Node runs a call up to its next await in one piece; the      *)
(* Redis commands of different calls interleave.                           *)
(***************************************************************************)
\* verifyOTP up to the answer of redisService.get
VerifyOTPGet(p) ==
  /\ calls[p].pc = "idle"
  /\ \E otp \in OtpCodes \cup {"000000"}, fail \in 0..1 :
       LET storedOTP == redis_get(otpStore, getOTPRedisKey("u1", "login")) IN
       calls' = [calls EXCEPT ![p] =
         IF fail = 1 \/ storedOTP.err
           THEN [NoCall EXCEPT !.op = "verifyOTP", !.pc = "done", !.otp = otp]
         ELSE [NoCall EXCEPT !.op = "verifyOTP", !.pc = "got", !.otp = otp,
                             !.storedOTP = IF storedOTP.found THEN storedOTP.val
                                           ELSE Undefined]]
  /\ UNCHANGED <<env, clock, users, refreshStore, blacklist, otpStore,
                 refreshIssued, accessIssued, revokedOk, blacklistedOk, last, order>>

\* verifyOTP from the comparison to its return, redisService.del included
VerifyOTPDel(p) ==
  /\ calls[p].op = "verifyOTP" /\ calls[p].pc = "got"
  /\ \E fail \in 0..1 :
       IF calls[p].storedOTP = Undefined \/ calls[p].storedOTP # calls[p].otp
            \/ fail = 1
         THEN /\ calls' = [calls EXCEPT ![p].pc = "done", ![p].ret = FALSE]
              /\ otpStore' = otpStore
       ELSE /\ calls' = [calls EXCEPT ![p].pc = "done", ![p].ret = TRUE]
            /\ otpStore' = redis_del(otpStore, getOTPRedisKey("u1", "login"))
  /\ UNCHANGED <<env, clock, users, refreshStore, blacklist, refreshIssued,
                 accessIssued, revokedOk, blacklistedOk, last, order>>

\* a code is sent before the first call begins
VerifySendLoginOTP ==
  /\ \A p \in Procs : calls[p].pc = "idle"
  /\ SendLoginOTPWith({"u1@x.com"}, 0..1)

NextVerify ==
  \/ Tick
  \/ VerifySendLoginOTP
  \/ \E p \in Procs : VerifyOTPGet(p)
  \/ \E p \in Procs : VerifyOTPDel(p)

SpecVerify == Init /\ [][NextVerify]_vars

(***************************************************************************)
(* SpecSaveRevoke: calls of saveRefreshToken and of                        *)
(* revokeAllUserRefreshTokens for u1 that run together; no Redis command   *)
(* fails.                                                                  *)
(***************************************************************************)
\* saveRefreshToken for a token just generated: SET, then HSET, then EXPIRE
SaveRefreshTokenStep(p) ==
  /\ \/ /\ calls[p].pc = "idle"
        /\ \E rand \in 0..MaxRand :
             LET refreshToken == generateRefreshToken(env, TokenUser(users, "u1"),
                                                      FALSE, nowSec, rand)
                 tokenData == [token |-> refreshToken, userId |-> "u1",
                               isAdmin |-> FALSE, createdAt |-> nowSec,
                               expiresAt |-> refreshToken.exp]
             IN /\ refreshStore' = redis_set(refreshStore,
                                             RefreshKey("u1", refreshToken.jti),
                                             tokenData, refreshToken.exp - nowSec,
                                             nowSec)
                /\ calls' = [calls EXCEPT ![p] =
                     [NoCall EXCEPT !.op = "saveRefreshToken", !.pc = "set",
                                    !.refreshToken = refreshToken]]
     \/ /\ calls[p].op = "saveRefreshToken" /\ calls[p].pc = "set"
        /\ refreshStore' = redis_hSet(refreshStore, UserTokensKey("u1"),
                                      calls[p].refreshToken.jti, nowSec).S
        /\ calls' = [calls EXCEPT ![p].pc = "hSet"]
     \/ /\ calls[p].op = "saveRefreshToken" /\ calls[p].pc = "hSet"
        /\ refreshStore' = redis_expire(refreshStore, UserTokensKey("u1"),
                                        DEFAULT_REFRESH_TOKEN_TTL * 2, nowSec)
        /\ calls' = [calls EXCEPT ![p].pc = "done", ![p].ret = TRUE]
  /\ UNCHANGED <<env, clock, users, blacklist, otpStore, refreshIssued,
                 accessIssued, revokedOk, blacklistedOk, last, order>>

\* revokeAllUserRefreshTokens: HGETALL, a DEL for each jti read, then the DEL
\* of the index
RevokeAllStep(p) ==
  /\ \/ /\ calls[p].pc = "idle"
        /\ refreshStore' = refreshStore
        /\ calls' = [calls EXCEPT ![p] =
             [NoCall EXCEPT !.op = "revokeAllUserRefreshTokens", !.pc = "loop",
                            !.userTokens = IndexJtis("u1")]]
     \/ /\ calls[p].op = "revokeAllUserRefreshTokens" /\ calls[p].pc = "loop"
        /\ \E jti \in calls[p].userTokens :
             /\ refreshStore' = redis_del(refreshStore, RefreshKey("u1", jti))
             /\ calls' = [calls EXCEPT ![p].userTokens = @ \ {jti}]
     \/ /\ calls[p].op = "revokeAllUserRefreshTokens" /\ calls[p].pc = "loop"
        /\ calls[p].userTokens = {}
        /\ refreshStore' = redis_del(refreshStore, UserTokensKey("u1"))
        /\ calls' = [calls EXCEPT ![p].pc = "done", ![p].ret = TRUE]
  /\ UNCHANGED <<env, clock, users, blacklist, otpStore, refreshIssued,
                 accessIssued, revokedOk, blacklistedOk, last, order>>

NextSaveRevoke ==
  \/ Tick
  \/ \E p \in Procs : SaveRefreshTokenStep(p)
  \/ \E p \in Procs : RevokeAllStep(p)

SpecSaveRevoke == Init /\ [][NextSaveRevoke]_vars

(***************************************************************************)
(* SpecLimit: calls of checkRateLimit("u1@x.com", 2, 1800), the limit of   *)
(* the password-reset requests, that run together while time passes; no    *)
(* Redis command fails.                                                    *)
(***************************************************************************)
\* checkRateLimit: GET and the comparison, then INCR, then EXPIRE when the
\* GET had found no counter
CheckRateLimitStep(p) ==
  /\ \/ /\ calls[p].pc = "idle"
        /\ LET got == redis_get(otpStore, getRateLimitKey("u1@x.com"))
               attempts == IF got.found THEN parseInt(got.val) ELSE 0
           IN calls' = [calls EXCEPT ![p] =
                IF attempts >= ResetMaxAttempts
                  THEN [NoCall EXCEPT !.op = "checkRateLimit", !.pc = "done",
                                      !.attempts = attempts, !.ret = FALSE]
                ELSE [NoCall EXCEPT !.op = "checkRateLimit", !.pc = "incr",
                                    !.attempts = attempts]]
        /\ otpStore' = otpStore
     \/ /\ calls[p].op = "checkRateLimit" /\ calls[p].pc = "incr"
        /\ otpStore' = redis_incr(otpStore, getRateLimitKey("u1@x.com")).S
        /\ calls' = IF calls[p].attempts = 0
                      THEN [calls EXCEPT ![p].pc = "expire"]
                    ELSE [calls EXCEPT ![p].pc = "done", ![p].ret = TRUE]
     \/ /\ calls[p].op = "checkRateLimit" /\ calls[p].pc = "expire"
        /\ otpStore' = redis_expire(otpStore, getRateLimitKey("u1@x.com"),
                                    ResetWindowSeconds, nowSec)
        /\ calls' = [calls EXCEPT ![p].pc = "done", ![p].ret = TRUE]
  /\ UNCHANGED <<env, clock, users, refreshStore, blacklist, refreshIssued,
                 accessIssued, revokedOk, blacklistedOk, last, order>>

NextLimit ==
  \/ Tick
  \/ \E p \in Procs : CheckRateLimitStep(p)

SpecLimit == Init /\ [][NextLimit]_vars

(***************************************************************************)
(* SpecOrder: calls of updateOrder, cancelOrder and completeOrder on one   *)
(* order that run together.  A call loads the order with findById, changes *)
(* the status of its own copy, and save() writes the changed status back.  *)
(***************************************************************************)
Statuses == {"pending", "processing", "shipped", "delivered", "cancelled"}

allowedTransitions ==
  [s \in Statuses |->
     CASE s = "pending" -> {"processing", "cancelled"}
       [] s = "processing" -> {"shipped", "cancelled"}
       [] s = "shipped" -> {"delivered"}
       [] OTHER -> {}]

\* FALSE where the code throws
validateStatusTransition(currentStatus, newStatus) ==
  newStatus \in allowedTransitions[currentStatus]

\* a call that has loaded the order and set the status of its copy; the
\* status is "" when the copy holds the value loaded, which save() does not
\* write
Loaded(op, loaded, status) ==
  [NoCall EXCEPT !.op = op, !.pc = "save",
                 !.status = IF status = loaded THEN "" ELSE status]

Thrown(op) == [NoCall EXCEPT !.op = op, !.pc = "done", !.ret = FALSE]

\* order.save(): the changed status is written, whatever the order holds now
OrderSave(p, op) ==
  /\ calls[p].op = op /\ calls[p].pc = "save"
  /\ order' = IF calls[p].status = "" THEN order
              ELSE [order EXCEPT !.status = calls[p].status]
  /\ calls' = [calls EXCEPT ![p].pc = "done", ![p].ret = TRUE]

UpdateOrderStep(p) ==
  /\ \/ /\ calls[p].pc = "idle"
        /\ \E status \in Statuses \cup {""} :
             calls' = [calls EXCEPT ![p] =
               IF status = "" THEN Loaded("updateOrder", order.status, order.status)
               ELSE IF validateStatusTransition(order.status, status)
                 THEN Loaded("updateOrder", order.status, status)
               ELSE Thrown("updateOrder")]
        /\ order' = order
     \/ OrderSave(p, "updateOrder")
  /\ UNCHANGED <<env, clock, users, refreshStore, blacklist, otpStore,
                 refreshIssued, accessIssued, revokedOk, blacklistedOk, last>>

CancelOrderStep(p) ==
  /\ \/ /\ calls[p].pc = "idle"
        /\ \E id \in UserIds :
             LET user == TokenUser(users, id)
             IN calls' = [calls EXCEPT ![p] =
                  IF user.role # "admin" /\ order.user # user.id
                    THEN Thrown("cancelOrder")
                  ELSE IF order.status = "shipped" \/ order.status = "delivered"
                    THEN Thrown("cancelOrder")
                  ELSE Loaded("cancelOrder", order.status, "cancelled")]
        /\ order' = order
     \/ OrderSave(p, "cancelOrder")
  /\ UNCHANGED <<env, clock, users, refreshStore, blacklist, otpStore,
                 refreshIssued, accessIssued, revokedOk, blacklistedOk, last>>

CompleteOrderStep(p) ==
  /\ \/ /\ calls[p].pc = "idle"
        /\ calls' = [calls EXCEPT ![p] =
             IF order.status # "shipped" THEN Thrown("completeOrder")
             ELSE Loaded("completeOrder", order.status, "delivered")]
        /\ order' = order
     \/ OrderSave(p, "completeOrder")
  /\ UNCHANGED <<env, clock, users, refreshStore, blacklist, otpStore,
                 refreshIssued, accessIssued, revokedOk, blacklistedOk, last>>

NextOrder ==
  \/ \E p \in Procs : UpdateOrderStep(p)
  \/ \E p \in Procs : CancelOrderStep(p)
  \/ \E p \in Procs : CompleteOrderStep(p)

SpecOrder == Init /\ [][NextOrder]_vars

(***************************************************************************)
(* Properties of the registry, stated for Spec.                            *)
(***************************************************************************)
\* the refresh tokens a client may present: issued ones and forged ones
Presentable == refreshIssued \cup ForgedRefresh

\* the registry records and the entries <<userId, jti>> of the indexes
Records(S) == {x \in S : x.kind = "string"}
IndexEntries(S) ==
  UNION {{<<x.key[1], p[1]>> : p \in x.hash} : x \in {y \in S : y.kind = "hash"}}

\* the refresh secret of the signing domain a token claims
RefreshSecretOf(t) ==
  IF t.isAdmin THEN OrStr(env.ADMIN_REFRESH_TOKEN_SECRET, REFRESH_TOKEN_SECRET)
  ELSE REFRESH_TOKEN_SECRET

\* the four conditions of usability of a refresh token
SignedInOwnDomain(t) == t.fmt = "jwt" /\ t.sig = RefreshSecretOf(t)
Unexpired(t) == nowSec < t.exp
RecordExists(t) ==
  \E x \in refreshStore : x.key = RefreshKey(DecodedUserId(t), t.jti)
StoredEquals(t) ==
  \E x \in Records(refreshStore) :
    x.key = RefreshKey(DecodedUserId(t), t.jti) /\ x.val.token = t
Usable(t) ==
  SignedInOwnDomain(t) /\ Unexpired(t) /\ RecordExists(t) /\ StoredEquals(t)

\* C1: once revokeRefreshToken(t) or revokeAllUserRefreshTokens(subject of t)
\* has returned true, verifyRefreshToken(t) throws and handleRefreshToken(t)
\* returns no access token, at every later moment.
C1_RevokedStaysRevoked ==
  \A t \in revokedOk :
    /\ ~verifyRefreshToken(env, refreshStore, t, nowSec, 0).ok
    /\ handleRefreshToken(env, users, refreshStore, otpStore, t, nowSec, 0).accessToken
         = Garbage

\* C2, as stated: verifyRefreshToken(t) returns a payload if and only if t is
\* signed in its own domain, unexpired, has a registry record under its
\* subject and jti, and the record stores exactly t.
C2_UsableIffFourConditions ==
  \A t \in Presentable : \A fail \in 0..1 :
    verifyRefreshToken(env, refreshStore, t, nowSec, fail).ok <=> Usable(t)

\* C2, amended: verifyRefreshToken(t) returns the payload of t if and only if
\* its registry lookup succeeds and the four conditions hold; when the lookup
\* throws, the verification throws whatever the registry holds.
C2_UsableIffLookupAndFourConditions ==
  \A t \in Presentable : \A fail \in 0..1 :
    LET v == verifyRefreshToken(env, refreshStore, t, nowSec, fail) IN
    /\ v.ok <=> (fail = 0 /\ Usable(t))
    /\ v.ok => v.payload = t

\* a refresh succeeded while some issued token is usable and another issued
\* token is not
C2_Witness ==
  /\ last.op = "handleRefreshToken" /\ last.ok
  /\ \E t \in refreshIssued : Usable(t)
  /\ \E t \in refreshIssued : ~Usable(t)

\* C16: handleRefreshToken returns an access token only when
\* verifyRefreshToken returned a payload.  A missing registry record, a
\* record that stores another string, a signature of another key, an expired
\* token and a failing registry lookup each end in the error with status 403,
\* with no token and the registry untouched; so does a string that is no JWT.
C16_RefreshFailsClosed ==
  \A t \in Presentable \cup {Garbage} : \A fail \in 0..1 :
    \A i \in clock..Len(Instants) :
      LET sec == Instants[i]
          v == verifyRefreshToken(env, refreshStore, t, sec, fail)
          r == handleRefreshToken(env, users, refreshStore, otpStore, t, sec, fail)
          Refused == r.status = 403 /\ r.accessToken = Garbage
                       /\ r.refreshToken = Garbage /\ r.S = refreshStore
      IN /\ r.accessToken # Garbage => v.ok
         /\ ~v.ok => Refused
         /\ ~RecordExists(t) => Refused
         /\ ~StoredEquals(t) => Refused
         /\ ~SignedInOwnDomain(t) => Refused
         /\ sec >= t.exp => Refused
         /\ fail = 1 => Refused

\* a refresh was refused while a token that was issued and then revoked has
\* no registry record, and another issued token is still usable
C16_Witness ==
  /\ last.op = "handleRefreshToken" /\ last.status = 403
  /\ \E t \in refreshIssued \cap revokedOk : ~RecordExists(t)
  /\ \E t \in refreshIssued : Usable(t)

\* C10: revokeRefreshToken(t), when it returns true, removes the registry
\* record under t's key and t's jti from the index of t's subject, and leaves
\* every other registry record and every other index entry as it was.
C10_RevokeRemovesExactlyOne ==
  \A t \in Presentable :
    LET r == revokeRefreshToken(refreshStore, t, 0)
        key == RefreshKey(DecodedUserId(t), t.jti)
        entry == <<DecodedUserId(t), t.jti>>
    IN r.ret =>
         /\ Records(r.S) = {x \in Records(refreshStore) : x.key # key}
         /\ IndexEntries(r.S) = IndexEntries(refreshStore) \ {entry}

\* C11: revokeAllUserRefreshTokens(s), when it returns true, has deleted the
\* registry record of every jti listed in the index of s and the index key
\* of s itself, and has left every key of every other subject as it was.
C11_RevokeAllClearsSubject ==
  \A s \in UserIds : \A fail \in 0..2 : \A done \in SUBSET IndexJtis(s) :
    LET r == revokeAllUserRefreshTokens(refreshStore, s, fail, done) IN
    r.ret =>
      /\ \A jti \in IndexJtis(s) : AtKey(r.S, RefreshKey(s, jti)) = {}
      /\ AtKey(r.S, UserTokensKey(s)) = {}
      /\ {x \in r.S : x.key[1] # s} = {x \in refreshStore : x.key[1] # s}
      /\ r.S \subseteq refreshStore

\* all tokens of the customer were revoked: the record of an unexpired token
\* of the customer and the customer's index are gone while a record and the
\* index of the admin are still stored
C11_Witness ==
  /\ last.op = "revokeAllUserRefreshTokens" /\ last.ok /\ last.who = "u1"
  /\ \E t \in revokedOk :
       DecodedUserId(t) = "u1" /\ Unexpired(t) /\ ~RecordExists(t)
  /\ \A x \in refreshStore : x.key[1] # "u1"
  /\ \E x \in Records(refreshStore) : x.key[1] = "a1"
  /\ AtKey(refreshStore, UserTokensKey("a1")) # {}

(***************************************************************************)
(* Properties of the middlewares, stated for SpecGate.                     *)
(***************************************************************************)
\* the header forms that present the token itself
PresentingForms == {"bearer", "bare"}

\* the conditions of usability of an access token
SignedStandard(t) == t.fmt = "jwt" /\ t.sig = ACCESS_TOKEN_SECRET
HasLedgerRecord(t) == \E x \in blacklist : x.key = BlacklistKey(sha256(t))

\* C3, as stated: userMiddleware authenticates a request if and only if the
\* token presented is validly signed, unexpired and has no ledger record.
C3_AcceptsIffValidAndNotBlacklisted ==
  \A t \in AccessTokens : \A form \in PresentingForms : \A fail \in 0..1 :
    userMiddleware(env, blacklist, [form |-> form, token |-> t], nowSec, fail).next
      <=> (SignedStandard(t) /\ Unexpired(t) /\ ~HasLedgerRecord(t))

\* C3, amended: userMiddleware authenticates a request, attaching the payload
\* and the token, if and only if the token presented is signed with
\* ACCESS_TOKEN_SECRET, unexpired, and the ledger lookup either finds no
\* record or fails.
C3_AcceptsIffValidAndNoRecordSeen ==
  \A t \in AccessTokens : \A form \in PresentingForms : \A fail \in 0..1 :
    LET um == userMiddleware(env, blacklist, [form |-> form, token |-> t],
                             nowSec, fail) IN
    /\ um.next <=> /\ SignedStandard(t)
                   /\ Unexpired(t)
                   /\ (fail = 1 \/ ~HasLedgerRecord(t))
    /\ um.next => um.user = t /\ um.token = t

\* a request was authenticated with a token that has a ledger record
C3_Witness ==
  /\ last.op = "userRequest" /\ last.ok
  /\ HasLedgerRecord(last.token)

\* C4, as stated: once an unexpired access token has been blacklisted, every
\* isTokenBlacklisted on it returns true until it expires and userMiddleware
\* rejects every request bearing it.
C4_BlacklistedIsRejected ==
  \A t \in blacklistedOk : Unexpired(t) =>
    \A fail \in 0..1 :
      /\ isTokenBlacklisted(blacklist, t, fail)
      /\ ~userMiddleware(env, blacklist, [form |-> "bearer", token |-> t],
                         nowSec, fail).next

\* C4, amended: once blacklistAccessToken has written the record of an
\* unexpired access token, until the token expires every isTokenBlacklisted
\* on it whose lookup succeeds returns true, and userMiddleware then answers
\* 401 "Token has been revoked" to every request bearing it.
C4_BlacklistedIsRejectedWhenSeen ==
  \A t \in blacklistedOk : Unexpired(t) =>
    /\ isTokenBlacklisted(blacklist, t, 0)
    /\ \A form \in PresentingForms :
         LET um == userMiddleware(env, blacklist, [form |-> form, token |-> t],
                                  nowSec, 0) IN
         ~um.next /\ um.status = 401 /\ um.message = "Token has been revoked"

\* a request bearing a blacklisted, unexpired token was answered "revoked"
\* at a later instant than the one the token was blacklisted at
C4_Witness ==
  /\ last.op = "userRequest" /\ last.message = "Token has been revoked"
  /\ \A x \in blacklist : x.val.blacklistedAt < nowSec
  /\ \E t \in blacklistedOk : Unexpired(t) /\ HasLedgerRecord(t)

\* C17: userMiddleware ends every request in exactly one outcome.  Without
\* a header or without a token in it: the anonymous identity and 401.  With
\* a token the ledger lookup reports as blacklisted: the anonymous identity
\* and 401 "Token has been revoked".  Otherwise, with a token signed with
\* ACCESS_TOKEN_SECRET that has expired: the anonymous identity and 401
\* "Token expired"; with a token that fails the verification in another way:
\* the anonymous identity and 403 "Invalid token"; with a token that passes:
\* next() with the verified payload as identity and the raw token attached.
\* next() and an error response never come together.
C17_OneTerminalOutcome ==
  \A hdr \in Headers : \A fail \in 0..1 :
    LET um == userMiddleware(env, blacklist, hdr, nowSec, fail)
        x == ExtractToken(hdr)
        t == x.token
        seen == isTokenBlacklisted(blacklist, t, fail)
        Anonymous(st, m) ==
          /\ ~um.next /\ um.status = st /\ um.message = m
          /\ um.user = defaultUser /\ um.token = Garbage
    IN /\ um.next <=> um.status = 0
       /\ um.status \in {0, 401, 403}
       /\ ~um.next => um.user = defaultUser
       /\ CASE hdr.form = "none" -> Anonymous(401, "No authorization header provided")
            [] hdr.form # "none" /\ ~x.some -> Anonymous(401, "No token provided")
            [] x.some /\ seen -> Anonymous(401, "Token has been revoked")
            [] x.some /\ ~seen /\ SignedStandard(t) /\ ~Unexpired(t) ->
                 Anonymous(401, "Token expired")
            [] x.some /\ ~seen /\ ~SignedStandard(t) ->
                 Anonymous(403, "Invalid token")
            [] OTHER ->
                 /\ um.next /\ um.message = ""
                 /\ um.user = jwt_verify(t, ACCESS_TOKEN_SECRET, nowSec).payload
                 /\ um.user # Garbage
                 /\ um.token = t

\* a request bearing an issued token that has expired was answered
\* "Token expired"
C17_Witness ==
  /\ last.op = "userRequest" /\ last.status = 401
  /\ last.message = "Token expired"
  /\ \E t \in accessIssued : SignedStandard(t) /\ ~Unexpired(t)

\* C20: blacklistAccessToken on an issued access token that has expired
\* returns true and writes nothing; on one that has not expired it returns
\* true and writes one ledger record under the sha256 digest of the token,
\* holding the jti, the user id and the instant but not the token, which
\* expires when the token does; it leaves every other ledger record alone.
C20_BlacklistExpiredIsNoOp ==
  \A t \in accessIssued :
    LET r == blacklistAccessToken(env, blacklist, t, nowSec, 0)
        key == BlacklistKey(sha256(t))
    IN IF ~Unexpired(t)
         THEN r.ret /\ ~r.wrote /\ r.B = blacklist
       ELSE /\ r.ret /\ r.wrote
            /\ Cardinality(AtKey(r.B, key)) = 1
            /\ \A x \in AtKey(r.B, key) :
                 /\ x.exp = t.exp
                 /\ DOMAIN x.val = {"jti", "userId", "blacklistedAt"}
                 /\ x.val.blacklistedAt = nowSec
            /\ r.B \ AtKey(r.B, key) = blacklist \ AtKey(blacklist, key)

\* C9: adminMiddleware lets a request proceed only if its token passes the
\* userMiddleware check, carries the role admin and, when
\* ADMIN_ACCESS_TOKEN_SECRET is configured, verifies under it; the identity
\* is then the verified payload, the token was issued to an account whose
\* role is admin, and every other request ends in 401 or 403.
C9_AdminGate ==
  \A hdr \in Headers : \A fail \in 0..1 :
    LET am == adminMiddleware(env, blacklist, hdr, nowSec, fail)
        t == hdr.token
    IN /\ am.next =>
            /\ hdr.form \in PresentingForms
            /\ userMiddleware(env, blacklist, hdr, nowSec, fail).next
            /\ SignedStandard(t) /\ Unexpired(t)
            /\ t.role = "admin"
            /\ env.ADMIN_ACCESS_TOKEN_SECRET # ""
                 => t.sig = env.ADMIN_ACCESS_TOKEN_SECRET
            /\ am.user = t
            /\ t \in accessIssued
            /\ users[DecodedUserId(t)].role = "admin"
       /\ ~am.next => am.status \in {401, 403}

\* an admin request was let through
C9_Witness ==
  /\ last.op = "adminRequest" /\ last.ok
  /\ last.token.role = "admin"

\* C26: an access token that adminSignIn issued to an admin, while it is
\* unexpired and has no ledger record, is let through by adminMiddleware,
\* with ADMIN_ACCESS_TOKEN_SECRET configured and without.
C26_AdminTokenAccepted ==
  \A t \in accessIssued :
    (t.isAdmin /\ t.role = "admin" /\ Unexpired(t) /\ ~HasLedgerRecord(t)) =>
      \A form \in PresentingForms :
        adminMiddleware(env, blacklist, [form |-> form, token |-> t],
                        nowSec, 0).next

(***************************************************************************)
(* Properties of the sign-out, stated for SpecLogout.                      *)
(***************************************************************************)
\* C5: after a sign-out that supplied no refresh token, no registry record
\* of the authenticated subject remains and none of the subject's refresh
\* tokens can be refreshed.
C5_LogoutWithoutCookieRevokesAll ==
  (last.op \in {"logout", "adminLogout"} /\ last.ok /\ ~last.cookie) =>
    LET subject == DecodedUserId(last.token) IN
    /\ \A x \in refreshStore : x.key[1] # subject
    /\ \A t \in refreshIssued :
         DecodedUserId(t) = subject =>
           ~verifyRefreshToken(env, refreshStore, t, nowSec, 0).ok

(***************************************************************************)
(* Properties of the issuing flows, stated for SpecIssue.                  *)
(***************************************************************************)
Issued == accessIssued \cup refreshIssued

\* the secret a verification in the standard and in the elevated domain uses
StandardSecret(t) ==
  IF t.jti = NoJti THEN ACCESS_TOKEN_SECRET ELSE REFRESH_TOKEN_SECRET
ElevatedSecret(t) ==
  IF t.jti = NoJti THEN env.ADMIN_ACCESS_TOKEN_SECRET
  ELSE env.ADMIN_REFRESH_TOKEN_SECRET

\* C6, as stated: a token minted with elevated = true is rejected by the
\* verification under the standard secret, and a token minted with
\* elevated = false by the verification under the elevated secret.
C6_DomainsSeparate ==
  \A t \in Issued :
    /\ t.isAdmin => ~jwt_verify(t, StandardSecret(t), t.iat).ok
    /\ ~t.isAdmin =>
         ~jwt_verify(t, OrStr(ElevatedSecret(t), StandardSecret(t)), t.iat).ok

\* C6, amended: when the elevated secret is configured and differs from the
\* standard one, a token of one domain is rejected under the secret of the
\* other; when it is not configured, elevated tokens are signed with the
\* standard secret and verify under it.
C6_DomainsSeparateWhenConfigured ==
  \A t \in Issued :
    IF ElevatedSecret(t) # "" /\ ElevatedSecret(t) # StandardSecret(t)
      THEN /\ t.isAdmin => /\ ~jwt_verify(t, StandardSecret(t), t.iat).ok
                           /\ jwt_verify(t, ElevatedSecret(t), t.iat).ok
           /\ ~t.isAdmin => /\ ~jwt_verify(t, ElevatedSecret(t), t.iat).ok
                            /\ jwt_verify(t, StandardSecret(t), t.iat).ok
    ELSE jwt_verify(t, StandardSecret(t), t.iat).ok

\* with the elevated secrets configured, an elevated and a standard token
\* have been issued
C6_Witness ==
  /\ env.ADMIN_ACCESS_TOKEN_SECRET # ""
  /\ \E t \in accessIssued : t.isAdmin
  /\ \E t \in accessIssued : ~t.isAdmin
  /\ \E t \in refreshIssued : t.isAdmin
  /\ \E t \in refreshIssued : ~t.isAdmin

\* C7: password signIn answers 403 to an account whose role is admin and
\* issues nothing, and no token without the elevated marker is ever issued
\* to an account whose role is admin.
C7_AdminsGetNoStandardTokens ==
  /\ (last.op = "signIn" /\ last.who = "a1@x.com") =>
       (last.status = 403 /\ ~last.ok)
  /\ \A t \in Issued : ~t.isAdmin => users[DecodedUserId(t)].role # "admin"

\* C12: any two refresh tokens handed out carry distinct jti values, also
\* when they were generated for the same subject at the same instant, and so
\* never share a registry key.
C12_DistinctJti ==
  \A t1, t2 \in refreshIssued :
    t1 # t2 =>
      /\ t1.jti # t2.jti
      /\ RefreshKey(DecodedUserId(t1), t1.jti) # RefreshKey(DecodedUserId(t2), t2.jti)

\* C8: every token carrying the elevated marker belongs to an account whose
\* role is admin; adminSignIn for an account of another role fails; and an
\* elevated access token comes with an elevated refresh token of the same
\* account, issued by adminSignIn at the same moment or refreshed before it
\* expired.
C8_ElevatedOnlyForAdmins ==
  /\ \A t \in Issued : t.isAdmin =>
       /\ users[DecodedUserId(t)].isRegistered
       /\ users[DecodedUserId(t)].role = "admin"
       /\ t.role = "admin"
  /\ (last.op = "adminSignIn" /\ last.who # "a1@x.com") =>
       (~last.ok /\ last.status = 401)
  /\ \A t \in accessIssued : t.isAdmin =>
       \E r \in refreshIssued :
         /\ r.isAdmin
         /\ DecodedUserId(r) = DecodedUserId(t)
         /\ r.iat <= t.iat /\ t.iat < r.exp

\* a customer was refused by adminSignIn and an elevated access token was
\* obtained by refreshing later than the elevated sign-in
C8_Witness ==
  /\ \E t \in accessIssued : t.isAdmin /\ \A r \in refreshIssued : r.iat < t.iat
  /\ last.op = "adminSignIn" /\ last.who = "u1@x.com" /\ ~last.ok

(***************************************************************************)
(* Properties of the login codes, stated for SpecOtp.                      *)
(***************************************************************************)
\* the code stored for a user is otp
StoredCode(O, userId, otp) ==
  \E x \in AtKey(O, getOTPRedisKey(userId, "login")) : x.val = otp

\* C13: a stored code verifies when the store answers, a verifyOTP that
\* returns true has deleted the code it matched and nothing else, and after it
\* every verifyOTP of that code returns false until saveOTP stores a code
\* again; a verifyOTP that returns false leaves the store as it was.
C13_OtpSingleUse ==
  /\ \A userId \in UserIds : \A otp \in OtpCodes : \A fail \in 0..2 :
       LET key == getOTPRedisKey(userId, "login")
           v1 == verifyOTP(otpStore, userId, otp, "login", fail)
       IN /\ (StoredCode(otpStore, userId, otp) /\ fail = 0) => v1.ret
          /\ v1.ret =>
               /\ StoredCode(otpStore, userId, otp)
               /\ v1.O = otpStore \ AtKey(otpStore, key)
               /\ \A fail2 \in 0..2 :
                    ~verifyOTP(v1.O, userId, otp, "login", fail2).ret
          /\ ~v1.ret => v1.O = otpStore
  /\ (last.op = "signInWithOTP" /\ last.ok) =>
       \A userId \in ByEmail(users, last.who) :
         AtKey(otpStore, getOTPRedisKey(userId, "login")) = {}

\* a sign-in with a code was refused after an earlier sign-in with a code had
\* succeeded and used the code up
C13_Witness ==
  /\ last.op = "signInWithOTP" /\ last.who = "u1@x.com" /\ last.status = 401
  /\ \E t \in refreshIssued : Prop(t.user, "_id") = "u1"
  /\ AtKey(otpStore, getOTPRedisKey("u1", "login")) = {}

\* the counter of a contact, 0 when there is none
Attempts(O, contact) ==
  LET got == redis_get(O, getRateLimitKey(contact)) IN
  IF got.found THEN parseInt(got.val) ELSE 0

\* C14: checkRateLimit(contact, N, window) returns true while fewer than N
\* calls were counted and false from then on, and every counter disappears
\* once the window has elapsed since the call that created it.
C14_RateLimitWindow ==
  \A contact \in Emails :
    LET r == checkRateLimit(otpStore, contact, DefaultMaxAttempts,
                            DefaultWindowSeconds, nowSec, 0)
    IN /\ r.ret <=> Attempts(otpStore, contact) < DefaultMaxAttempts
       /\ r.ret => Attempts(r.O, contact) = Attempts(otpStore, contact) + 1
       /\ \A x \in AtKey(otpStore, getRateLimitKey(contact)) :
            x.exp # NoExpiry /\ x.exp <= nowSec + DefaultWindowSeconds


\* C22: the response to a password-reset request does not depend on whether
\* a registered user has the e-mail given: two requests whose contacts have
\* the same count in the rate limit get the same status and the same message.
C22_ResetResponseHidesExistence ==
  \A e1, e2 \in Emails :
    Attempts(otpStore, e1) = Attempts(otpStore, e2) =>
      LET r1 == sendPasswordResetOTP(users, otpStore, e1, "123456", nowSec, 0, 0)
          r2 == sendPasswordResetOTP(users, otpStore, e2, "123456", nowSec, 0, 0)
      IN r1.status = r2.status /\ r1.message = r2.message

\* C23: a code presented after its ten minutes have passed is refused by
\* signInWithOTP without any token, and the refusal differs from the one a
\* wrong code gets.  The body of a refusal holds the message alone, and the
\* message is fixed by the status.
C23_ExpiredCodeIsDistinguished ==
  \A otp \in OtpCodes : \A i \in clock..Len(Instants) :
    (StoredCode(otpStore, "u1", otp)
       /\ \A x \in AtKey(otpStore, getOTPRedisKey("u1", "login")) :
            ~Live(x, Instants[i])) =>
      LET expired == signInWithOTP(env, users, refreshStore,
                                   {x \in otpStore : Live(x, Instants[i])},
                                   [email |-> "u1@x.com", otp |-> otp],
                                   Instants[i], 0, 0, 0)
          wrong == signInWithOTP(env, users, refreshStore, otpStore,
                                 [email |-> "u1@x.com", otp |-> "000000"],
                                 nowSec, 0, 0, 0)
      IN /\ expired.status \notin {200, 201}
         /\ expired.accessToken = Garbage /\ expired.refreshToken = Garbage
         /\ expired.S = refreshStore
         /\ wrong.status \notin {200, 201}
         /\ expired.status # wrong.status

(***************************************************************************)
(* Properties of the refresh flow, stated for SpecRefresh                  *)
(***************************************************************************)
\* the elevated or the standard access secret
AccessSecretOf(isAdmin) ==
  IF isAdmin THEN OrStr(env.ADMIN_ACCESS_TOKEN_SECRET, ACCESS_TOKEN_SECRET)
  ELSE ACCESS_TOKEN_SECRET

\* C15: handleRefreshToken on a usable refresh token returns a new access
\* token that carries the id, role, e-mail and avatar embedded in the refresh
\* token, whatever the stored user has become, and the same elevation flag;
\* the registry record and the index of the subject are left as they were,
\* no new refresh token is returned and the one presented stays usable.
C15_RefreshKeepsIdentity ==
  \A t \in Presentable :
    Usable(t) =>
      LET r == handleRefreshToken(env, users, refreshStore, otpStore, t, nowSec, 0)
          a == r.accessToken
      IN /\ r.status = 200
         /\ jwt_verify(a, AccessSecretOf(t.isAdmin), nowSec).ok
         /\ a.jti = NoJti
         /\ Prop(a.user, "id") = DecodedUserId(t)
         /\ Prop(a.user, "role") = Prop(t.user, "role")
         /\ Prop(a.user, "email") = Prop(t.user, "email")
         /\ Prop(a.user, "avatarUrl") = Prop(t.user, "avatarUrl")
         /\ a.role = t.role
         /\ a.isAdmin = t.isAdmin
         /\ r.S = refreshStore
         /\ r.refreshToken = Garbage
         /\ verifyRefreshToken(env, r.S, t, nowSec, 0).ok

\* a refresh token was exchanged after the e-mail of its subject had changed
C15_Witness ==
  /\ last.op = "handleRefreshToken" /\ last.ok
  /\ \E t \in refreshIssued :
       /\ Usable(t) /\ t.iat < nowSec
       /\ users[DecodedUserId(t)].email # Prop(t.user, "email")
       /\ \E a \in accessIssued :
            /\ Prop(a.user, "id") = DecodedUserId(t)
            /\ Prop(a.user, "email") = Prop(t.user, "email")
            /\ a.iat = nowSec /\ clock > 1


\* C21: whenever the registry holds a record of a subject, the index of that
\* subject exists and does not expire before the record does, whatever
\* REFRESH_TOKEN_EXPIRY is set to.
C21_IndexOutlivesRecords ==
  \A x \in Records(refreshStore) :
    /\ AtKey(refreshStore, UserTokensKey(x.key[1])) # {}
    /\ \A i \in AtKey(refreshStore, UserTokensKey(x.key[1])) :
         i.exp = NoExpiry \/ i.exp - nowSec >= x.exp - nowSec

(***************************************************************************)
(* Properties of the access tokens, stated for SpecIssue                   *)
(***************************************************************************)
\* the identity objects the flows hand to generateAccessToken: the object
\* built from a stored user and the user document itself
Identities ==
  {TokenUser(users, id) : id \in {u \in UserIds : users[u].exists}} \cup
  {UserDocument(users, id) : id \in {u \in UserIds : users[u].exists}}

C29_NoPasswordHashInTokens ==
  \A t \in Issued :
    /\ DOMAIN t.user \subseteq
         {"id", "_id", "role", "email", "phoneNumber", "avatarUrl", "name"}
    /\ "password" \notin DOMAIN t.user

(***************************************************************************)
(* Properties of the registration, stated for SpecIssue                    *)
(***************************************************************************)
PhoneNumbers == {"0901", "0903"}

\* C19: registerUser fails, creating no user and issuing no token, whenever
\* a registered user already has the e-mail or the phone number given;
\* otherwise it stores a registered user with the role customer, returns an
\* access and a refresh token and stores the refresh token in the registry.
\* So a registration that succeeded leaves no second registered user with
\* the e-mail or the phone number of the new one.
C19_RegisterRejectsExistingContact ==
  /\ \A email \in Emails : \A phoneNumber \in PhoneNumbers :
     \A newId \in {id \in UserIds : ~users[id].exists} :
       LET r == registerUser(env, users, refreshStore, otpStore,
                             [email |-> email, phoneNumber |-> phoneNumber,
                              password |-> "Secret123!"], newId, nowSec, 0, 0)
       IN /\ ByEmail(users, email) # {} =>
               /\ r.status = 400 /\ r.U = users /\ r.S = refreshStore
               /\ r.accessToken = Garbage /\ r.refreshToken = Garbage
          /\ (ByEmail(users, email) = {} /\ ByPhone(users, phoneNumber) = {}) =>
               /\ r.status = 201
               /\ r.U = [users EXCEPT ![newId] = r.U[newId]]
               /\ r.U[newId].exists /\ r.U[newId].isRegistered
               /\ r.U[newId].role = "customer"
               /\ r.U[newId].email = email /\ r.U[newId].phoneNumber = phoneNumber
               /\ jwt_verify(r.accessToken, ACCESS_TOKEN_SECRET, nowSec).ok
               /\ verifyRefreshToken(env, r.S, r.refreshToken, nowSec, 0).ok
               /\ DecodedUserId(r.refreshToken) = newId
  /\ (last.op = "registerUser" /\ last.status = 201) =>
       \A id \in ByEmail(users, last.who) :
         /\ ByEmail(users, last.who) = {id}
         /\ ByPhone(users, users[id].phoneNumber) = {id}


(***************************************************************************)
(* Properties of calls that run together                                   *)
(***************************************************************************)
\* the calls of an operation that have returned true
ReturnedTrue(op) ==
  {p \in Procs : calls[p].op = op /\ calls[p].pc = "done" /\ calls[p].ret}

\* C24: of the verifyOTP calls that present the code stored for one user and
\* purpose, however their Redis commands interleave, at most one returns
\* true.
C24_OneCodeOneSession == Cardinality(ReturnedTrue("verifyOTP")) <= 1


\* no call has begun and not yet returned
Quiet == \A p \in Procs : calls[p].pc \in {"idle", "done"}

\* C25: when the calls of saveRefreshToken and revokeAllUserRefreshTokens for
\* one subject have all returned, however their Redis commands interleaved,
\* the jti of every registry record of the subject is listed in the index of
\* the subject.
C25_NoOrphanRecord ==
  Quiet =>
    \A x \in Records(refreshStore) :
      x.key[1] = "u1" => x.key[2] \in IndexJtis("u1")


\* C27: whenever no checkRateLimit call is in progress, a counter that
\* exists has an expiry, also when the key expired between the GET and the
\* INCR of a call and when calls for one contact ran together; so a contact
\* that was refused is allowed again once the counter has expired.
C27_CounterCarriesExpiry ==
  Quiet =>
    \A x \in AtKey(otpStore, getRateLimitKey("u1@x.com")) : x.exp # NoExpiry

\* C28: of the checkRateLimit(contact, N, window) calls made for one contact
\* within one window, however their Redis commands interleave, at most N
\* return true.
C28_AtMostNWithinWindow ==
  clock = 1 => Cardinality(ReturnedTrue("checkRateLimit")) <= ResetMaxAttempts

\* C30: under any sequence or interleaving of updateOrder, cancelOrder and
\* completeOrder on one order, every change of its status is one of
\* pending->processing, pending->cancelled, processing->shipped,
\* processing->cancelled and shipped->delivered; delivered and cancelled are
\* never left, and a shipped or delivered order never becomes cancelled.
C30_StatusFollowsTransitions ==
  [][order'.status # order.status =>
       validateStatusTransition(order.status, order'.status)]_vars

====
